---- MODULE Spec2Model ----
(***************************************************************************)
(* Model of the profile ingestion and source-attribution engine of the     *)
(* Pyroscope profile viewer: PathResolver (src/utils/pathResolver.ts),     *)
(* mapSamplesToSource (src/parser/sourceMapper.ts), decompressBuffer       *)
(* (src/parser/decompressor.ts) and the load / fetch commands              *)
(* (src/commands/*.ts) with the ProfileStore (src/state/profileStore.ts).  *)
(*                                                                         *)
(* Paths are records [abs, comps]: abs says whether the string starts with *)
(* "/", comps are its components.  A string prefix test is modelled at     *)
(* component granularity.  Relative paths are probed against the process   *)
(* working directory, which holds none of the modelled files.              *)
(***************************************************************************)
EXTENDS Integers, Sequences, FiniteSets, TLC

VARIABLES
    files,          \* the regular files on disk (set of absolute paths)
    folders,        \* PathResolver.workspaceFolders (sequence of absolute paths)
    rawMappings,    \* the pyroscope.pathMappings setting, as configured
    calls,          \* resolver session: how often each profiled path was resolved
    firstResult,    \* resolver session: result of the first call per profiled path
    lastPath,       \* resolver session: argument of the latest resolveFilePath call
    lastResult,     \* resolver session: its return value
    lastProbes      \* resolver session: filesystem probes (existsSync, readdirSync) it issued

VARIABLES
    profile,        \* the ParsedProfile handed to mapSamplesToSource
    pc,             \* position of the pass: "start", "loop", "percent", "done"
    sampleIdx,      \* the loop variable of the per-sample loop (0-based)
    idx,            \* cpuIndex, allocSpaceIndex, allocObjectsIndex, inuseSpaceIndex
    uniquePaths,    \* the set of filenames collected before the loop
    totalCpu,       \* percentage denominator for CPU
    totalMemory,    \* percentage denominator for memory
    metricsMap,     \* (resolved file, line) -> LineMetrics
    resolveCalls    \* calls pathResolver.resolveFilePath made by the pass

passVars == <<profile, pc, sampleIdx, idx, uniquePaths, totalCpu, totalMemory,
              metricsMap, resolveCalls>>

VARIABLES
    data,           \* decompressor: the input buffer
    out1,           \* decompressor: decompressBuffer(data)
    out2,           \* decompressor: decompressBuffer applied to out1
    dpc             \* decompressor: "input", "once", "twice"

decompVars == <<data, out1, out2, dpc>>

VARIABLES
    task,           \* commands: per ingestion pass, its position, buffer, profile, metrics, result
    cmd,            \* commands: position of the load command and of the fetch command
    store,          \* ProfileStore: profiles (in Map order) and profileInfo
    messages        \* commands: what was shown to the user (kind, pass or command)

cmdVars == <<task, cmd, store, messages>>

resolverVars == <<files, folders, rawMappings, calls, firstResult, lastPath, lastResult, lastProbes>>

VARIABLES
    hintIn,         \* presentation: the arguments of a renderHint call
    hintOut,        \* presentation: what renderHint returned
    fnIn,           \* presentation: line metrics, function ranges and config of an aggregation
    fnOut           \* presentation: the FunctionMetrics the aggregator returned

VARIABLES
    lookup,         \* ProfileStore: the latest getMetricsForProfile call and its return value
    enabled,        \* DecorationManager.enabled
    settings,       \* the pyroscope.* configuration the DecorationManager reads
    decorationTypes,\* DecorationManager.decorationTypes: the colours with a decoration type
    editors         \* per visible editor (by file), per decoration type, the decorations set

uiVars == <<lookup, enabled, settings, decorationTypes, editors>>

\* The extension was activated and nothing was looked up or decorated
UiIdle ==
    /\ lookup = "none"
    /\ enabled = TRUE
    /\ settings = "none"
    /\ decorationTypes = {}
    /\ editors = <<>>

viewVars == <<hintIn, hintOut, fnIn, fnOut, uiVars>>

\* Nothing was rendered or aggregated
ViewIdle ==
    /\ hintIn = "none"
    /\ hintOut = "none"
    /\ fnIn = "none"
    /\ fnOut = "none"
    /\ UiIdle

----------------------------------------------------------------------------
(* Paths *)

P(abs, comps) == [abs |-> abs, comps |-> comps]

NULL == P(FALSE, <<"<null>">>)

NoPath == P(FALSE, <<"<none>">>)

\* path.isAbsolute
isAbsolute(p) == p.abs

\* path.basename
basename(p) == IF Len(p.comps) = 0 THEN "" ELSE p.comps[Len(p.comps)]

\* path.join(a, b): b is appended below a, also when b is written absolute
join(a, b) == P(a.abs, a.comps \o b.comps)

\* String.prototype.startsWith on paths
startsWith(p, prefix) ==
    /\ p.abs = prefix.abs
    /\ Len(prefix.comps) <= Len(p.comps)
    /\ SubSeq(p.comps, 1, Len(prefix.comps)) = prefix.comps

\* String.prototype.substring(prefix.length): the remainder after the prefix
substring(p, prefix) ==
    P(Len(prefix.comps) > 0 \/ p.abs, SubSeq(p.comps, Len(prefix.comps) + 1, Len(p.comps)))

----------------------------------------------------------------------------
(* The filesystem the resolver probes *)

WS == P(TRUE, <<"ws">>)
WSSub == P(TRUE, <<"ws", "sub">>)
WSHid == P(TRUE, <<"ws", ".hid">>)
Ext == P(TRUE, <<"ext">>)

\* Directories that exist on disk
Directories == {WS, WSSub, WSHid, Ext}

\* Files that may exist on disk
FileUniverse ==
    { P(TRUE, <<"ws", "a.go">>), P(TRUE, <<"ws", "sub", "a.go">>),
      P(TRUE, <<"ws", "sub", "b.go">>), P(TRUE, <<"ws", ".hid", "b.go">>),
      P(TRUE, <<"ext", "a.go">>) }

\* fs.existsSync: true of files and of directories
existsSync(p) == p.abs /\ (p \in files \/ p \in Directories)

\* the entries of a directory that are regular files named `name`
FileEntries(dir, name) ==
    { f \in files : /\ Len(f.comps) = Len(dir.comps) + 1
                    /\ SubSeq(f.comps, 1, Len(dir.comps)) = dir.comps
                    /\ basename(f) = name }

\* the entries of a directory that are directories
DirEntries(dir) ==
    { d \in Directories : /\ Len(d.comps) = Len(dir.comps) + 1
                          /\ SubSeq(d.comps, 1, Len(dir.comps)) = dir.comps }

isHidden(d) == basename(d) \in {".hid"}

RECURSIVE SetToSeq(_)
SetToSeq(S) == IF S = {} THEN <<>>
               ELSE LET x == CHOOSE y \in S : TRUE IN <<x>> \o SetToSeq(S \ {x})

RECURSIVE Flatten(_)
Flatten(ss) == IF Len(ss) = 0 THEN <<>> ELSE Head(ss) \o Flatten(Tail(ss))

RECURSIVE SumSeq(_)
SumSeq(s) == IF Len(s) = 0 THEN 0 ELSE Head(s) + SumSeq(Tail(s))

\* searchDirectory: the matches below dir, and the readdirSync calls made.
\* A directory that cannot be read contributes nothing and counts as one probe.
RECURSIVE searchDirectory(_, _)
searchDirectory(dir, name) ==
    IF dir \notin Directories
    THEN [matches |-> <<>>, probes |-> 1]
    ELSE LET subs == SetToSeq({ d \in DirEntries(dir) : ~isHidden(d) })
             rec  == [i \in 1..Len(subs) |-> searchDirectory(subs[i], name)]
         IN  [matches |-> SetToSeq(FileEntries(dir, name))
                            \o Flatten([i \in 1..Len(subs) |-> rec[i].matches]),
              probes  |-> 1 + SumSeq([i \in 1..Len(subs) |-> rec[i].probes])]

\* findFilesByBasename: every workspace folder is searched in turn
findFilesByBasename(name) ==
    LET rec == [i \in 1..Len(folders) |-> searchDirectory(folders[i], name)]
    IN  [matches |-> Flatten([i \in 1..Len(folders) |-> rec[i].matches]),
         probes  |-> SumSeq([i \in 1..Len(folders) |-> rec[i].probes])]

----------------------------------------------------------------------------
(* Path mappings *)

WorkspaceVar == "${workspaceFolder}"

\* substituteVariables: ${workspaceFolder} becomes the first workspace folder
substituteVariables(raw) ==
    IF Len(folders) > 0 /\ Len(raw.comps) > 0 /\ raw.comps[1] = WorkspaceVar /\ ~raw.abs
    THEN P(TRUE, folders[1].comps \o Tail(raw.comps))
    ELSE raw

\* a loader that substitutes the variable on both sides of a mapping
loadPathMappingsSubstitutingBoth ==
    [i \in 1..Len(rawMappings) |->
        [from |-> substituteVariables(rawMappings[i].from),
         to   |-> substituteVariables(rawMappings[i].to)]]

\* loadPathMappings: only the `to` side is substituted
loadPathMappings ==
    [i \in 1..Len(rawMappings) |->
        [from |-> rawMappings[i].from, to |-> substituteVariables(rawMappings[i].to)]]

pathMappings == loadPathMappings

----------------------------------------------------------------------------
(* resolveFilePath *)

R(result, probes) == [result |-> result, probes |-> probes]

\* Strategy 1: the mappings from index i on; n probes were made before
RECURSIVE tryMappings(_, _, _)
tryMappings(profilePath, i, n) ==
    IF i > Len(pathMappings) THEN R(NULL, n)
    ELSE IF startsWith(profilePath, pathMappings[i].from)
         THEN LET relativePath == substring(profilePath, pathMappings[i].from)
                  mappedPath   == join(pathMappings[i].to, relativePath)
              IN  IF existsSync(mappedPath) THEN R(mappedPath, n + 1)
                  ELSE tryMappings(profilePath, i + 1, n + 1)
         ELSE tryMappings(profilePath, i + 1, n)

\* Strategy 2: the path itself, when absolute
tryAbsolute(profilePath) ==
    IF isAbsolute(profilePath)
    THEN R(IF existsSync(profilePath) THEN profilePath ELSE NULL, 1)
    ELSE R(NULL, 0)

\* Strategy 3: joined onto each workspace folder, in workspace order
RECURSIVE tryWorkspace(_, _, _)
tryWorkspace(profilePath, i, n) ==
    IF i > Len(folders) THEN R(NULL, n)
    ELSE LET candidatePath == join(folders[i], profilePath)
         IN  IF existsSync(candidatePath) THEN R(candidatePath, n + 1)
             ELSE tryWorkspace(profilePath, i + 1, n + 1)

\* the basename fallback as it was before collision detection: first match wins
tryBasenameFirstMatch(profilePath) ==
    LET found == findFilesByBasename(basename(profilePath))
    IN  R(IF Len(found.matches) >= 1 THEN found.matches[1] ELSE NULL, found.probes)

\* Strategy 4: basename fallback with collision detection
tryBasename(profilePath) ==
    LET found == findFilesByBasename(basename(profilePath))
    IN  R(IF Len(found.matches) = 1 THEN found.matches[1] ELSE NULL, found.probes)

\* resolveFilePath with the absolute-path check ahead of the mappings
resolveFilePathAbsoluteFirst(profilePath) ==
    LET s1 == tryMappings(profilePath, 1, 0)
        s2 == tryAbsolute(profilePath)
        s3 == tryWorkspace(profilePath, 1, 0)
        s4 == tryBasename(profilePath)
    IN  IF s2.result # NULL THEN s2
        ELSE IF s1.result # NULL THEN R(s1.result, s1.probes + s2.probes)
        ELSE IF s3.result # NULL THEN R(s3.result, s1.probes + s2.probes + s3.probes)
        ELSE R(s4.result, s1.probes + s2.probes + s3.probes + s4.probes)

resolveFilePath(profilePath) ==
    LET s1 == tryMappings(profilePath, 1, 0)
        s2 == tryAbsolute(profilePath)
        s3 == tryWorkspace(profilePath, 1, 0)
        s4 == tryBasename(profilePath)
    IN  IF s1.result # NULL THEN s1
        ELSE IF s2.result # NULL THEN R(s2.result, s1.probes + s2.probes)
        ELSE IF s3.result # NULL THEN R(s3.result, s1.probes + s2.probes + s3.probes)
        ELSE R(s4.result, s1.probes + s2.probes + s3.probes + s4.probes)

----------------------------------------------------------------------------
(* The parsed profile (pprofParser.ts) *)

Str_cpu == <<"c", "p", "u">>
Str_samples == <<"s", "a", "m", "p", "l", "e", "s">>
Str_sample == <<"s", "a", "m", "p", "l", "e">>
Str_alloc_space == <<"a", "l", "l", "o", "c", "_", "s", "p", "a", "c", "e">>
Str_allocated == <<"a", "l", "l", "o", "c", "a", "t", "e", "d">>
Str_bytes == <<"b", "y", "t", "e", "s">>
Str_alloc_objects == <<"a", "l", "l", "o", "c", "_", "o", "b", "j", "e", "c", "t", "s">>
Str_allocations == <<"a", "l", "l", "o", "c", "a", "t", "i", "o", "n", "s">>
Str_count == <<"c", "o", "u", "n", "t">>
Str_inuse_space == <<"i", "n", "u", "s", "e", "_", "s", "p", "a", "c", "e">>
Str_inuse == <<"i", "n", "u", "s", "e">>
Str_goroutine == <<"g", "o", "r", "o", "u", "t", "i", "n", "e">>

\* String.prototype.toLowerCase
toLowerCase(str) ==
    [i \in 1..Len(str) |->
        CASE str[i] = "C" -> "c" [] str[i] = "P" -> "p" [] str[i] = "U" -> "u"
          [] OTHER -> str[i]]

\* String.prototype.includes
includes(str, part) ==
    \E i \in 0..(Len(str) - Len(part)) : SubSeq(str, i + 1, i + Len(part)) = part

\* getSampleTypeIndex: findIndex over the sample types, -1 when none matches
getSampleTypeIndex(prof, typeName) ==
    LET hits == { i \in 1..Len(prof.sampleTypes) :
                    includes(toLowerCase(prof.sampleTypes[i]), toLowerCase(typeName)) }
    IN  IF hits = {} THEN -1 ELSE (CHOOSE i \in hits : \A j \in hits : i <= j) - 1

\* a lookup that walks the sample types first and the candidate names second
findSampleTypeIndexByTypeOrder(prof, possibleNames) ==
    LET hits == { i \in 1..Len(prof.sampleTypes) :
                    \E n \in 1..Len(possibleNames) :
                        includes(toLowerCase(prof.sampleTypes[i]), toLowerCase(possibleNames[n])) }
    IN  IF hits = {} THEN -1 ELSE (CHOOSE i \in hits : \A j \in hits : i <= j) - 1

\* findSampleTypeIndex: the first candidate name that any sample type contains
RECURSIVE findSampleTypeIndex(_, _)
findSampleTypeIndex(prof, possibleNames) ==
    IF Len(possibleNames) = 0 THEN -1
    ELSE LET index == getSampleTypeIndex(prof, Head(possibleNames))
         IN  IF index # -1 THEN index ELSE findSampleTypeIndex(prof, Tail(possibleNames))

\* The function table of the profile: id -> declared filename
EmptyName == P(FALSE, <<>>)
FileA == P(FALSE, <<"a.go">>)
FileB == P(FALSE, <<"x", "b.go">>)
FileC == P(TRUE, <<"srv", "c.go">>)
FileAMapped == P(TRUE, <<"app", "a.go">>)

functions ==
    (1 :> [filename |-> FileA]) @@ (2 :> [filename |-> FileB]) @@
    (3 :> [filename |-> EmptyName]) @@ (4 :> [filename |-> FileC]) @@
    (5 :> [filename |-> FileAMapped])

L(f, l) == [functionId |-> f, line |-> l]

\* The location table: id -> lines (several when functions are inlined).
\* Location 7 has no line, location 8 names a function that does not exist.
locations ==
    (1 :> <<L(1, 10)>>) @@ (2 :> <<L(2, 5)>>) @@ (3 :> <<L(2, 5), L(1, 10)>>) @@
    (4 :> <<L(3, 7)>>) @@ (5 :> <<L(1, 0)>>) @@ (6 :> <<L(4, 3)>>) @@
    (7 :> <<>>) @@ (8 :> <<L(77, 1)>>) @@ (9 :> <<L(5, 10)>>)

\* a stack whose frames are numbered by the locations found so far instead of
\* by the position in sample.locationIds
getStackTraceCountingFound(sample) ==
    Flatten([i \in 1..Len(sample.locationIds) |->
        IF sample.locationIds[i] \notin DOMAIN locations THEN <<>>
        ELSE LET lines == SelectSeq(locations[sample.locationIds[i]],
                                    LAMBDA ln : ln.functionId \in DOMAIN functions)
             IN  [k \in 1..Len(lines) |->
                    [filename      |-> functions[lines[k].functionId].filename,
                     line          |-> lines[k].line,
                     locationIndex |->
                        Cardinality({ j \in 1..(i - 1) :
                                        sample.locationIds[j] \in DOMAIN locations })]]])

\* getStackTrace: the frames of a sample, innermost location first
getStackTrace(sample) ==
    Flatten([i \in 1..Len(sample.locationIds) |->
        IF sample.locationIds[i] \notin DOMAIN locations THEN <<>>
        ELSE LET lines == SelectSeq(locations[sample.locationIds[i]],
                                    LAMBDA ln : ln.functionId \in DOMAIN functions)
             IN  [k \in 1..Len(lines) |->
                    [filename      |-> functions[lines[k].functionId].filename,
                     line          |-> lines[k].line,
                     locationIndex |-> i - 1]]])

----------------------------------------------------------------------------
(* mapSamplesToSource (sourceMapper.ts) *)

\* A number kept exactly: num / den with den > 0
Rat(n, d) == [num |-> n, den |-> d]

RatLeq(a, b) == a.num * b.den <= b.num * a.den

RatEq(a, b) == a.num * b.den = b.num * a.den

NewLineMetrics ==
    [cpuPercent |-> Rat(0, 1), cpuSamples |-> 0, memoryBytes |-> 0,
     memoryPercent |-> Rat(0, 1), allocations |-> 0,
     selfCpuPercent |-> Rat(0, 1), selfMemoryPercent |-> Rat(0, 1)]

\* The sample-type indices found at the start of the pass
findIndices(prof) ==
    [cpuIndex          |-> findSampleTypeIndex(prof, <<Str_cpu, Str_samples, Str_sample>>),
     allocSpaceIndex   |-> findSampleTypeIndex(prof, <<Str_alloc_space, Str_allocated, Str_bytes>>),
     allocObjectsIndex |-> findSampleTypeIndex(prof, <<Str_alloc_objects, Str_allocations, Str_count>>),
     inuseSpaceIndex   |-> findSampleTypeIndex(prof, <<Str_inuse_space, Str_inuse>>)]

\* sample.values[index] as a condition: the index is set and the value is truthy
truthy(sample, index) == index # -1 /\ sample.values[index + 1] # 0

valueAt(sample, index) == sample.values[index + 1]

\* the filenames the pass collects before its loop
collectUniquePaths(prof) ==
    UNION { { fr.filename : fr \in { getStackTrace(prof.samples[i])[k] :
                                       k \in 1..Len(getStackTrace(prof.samples[i])) } }
            \ {EmptyName} : i \in 1..Len(prof.samples) }

\* a CPU value that falls back to the first sample value when no type matched
cpuOfDefaultingToFirst(ix, sample) ==
    IF truthy(sample, ix.cpuIndex) THEN valueAt(sample, ix.cpuIndex)
    ELSE IF ix.cpuIndex = -1 /\ Len(sample.values) > 0 THEN sample.values[1]
    ELSE 0

\* what one sample adds to totalCpu
cpuOf(ix, sample) ==
    IF truthy(sample, ix.cpuIndex) THEN valueAt(sample, ix.cpuIndex) ELSE 0

\* what one sample adds to totalMemory, and to the memory fields of its frames
memoryOf(ix, sample) ==
    IF truthy(sample, ix.allocSpaceIndex) THEN valueAt(sample, ix.allocSpaceIndex)
    ELSE IF truthy(sample, ix.inuseSpaceIndex) THEN valueAt(sample, ix.inuseSpaceIndex)
    ELSE 0

allocationsOf(ix, sample) ==
    IF truthy(sample, ix.allocObjectsIndex) THEN valueAt(sample, ix.allocObjectsIndex) ELSE 0

computeTotalCpu(ix, prof) ==
    SumSeq([i \in 1..Len(prof.samples) |-> cpuOf(ix, prof.samples[i])])

computeTotalMemory(ix, prof) ==
    SumSeq([i \in 1..Len(prof.samples) |-> memoryOf(ix, prof.samples[i])])

\* the frame is looked up with the resolver (it has a filename and a line)
frameIsResolved(frame) == frame.filename # EmptyName /\ frame.line # 0

\* self credit decided by the position of the frame in the flattened stack
isSelfFrameByStackPosition(frame, position) == position = 1

\* locationIndex 0 = leaf (self time), 1+ = callers (cumulative only)
isSelfFrame(frame, position) == frame.locationIndex = 0

\* accumulation that overwrites the cumulative field instead of adding to it
accumulateOverwriting(lm, selfFrame, ix, sample) ==
    [lm EXCEPT
        !.cpuSamples = cpuOf(ix, sample),
        !.selfCpuPercent = IF selfFrame THEN Rat(@.num + cpuOf(ix, sample), 1) ELSE @,
        !.memoryBytes = @ + memoryOf(ix, sample),
        !.selfMemoryPercent = IF selfFrame THEN Rat(@.num + memoryOf(ix, sample), 1) ELSE @,
        !.allocations = @ + allocationsOf(ix, sample)]

\* accumulation that credits self to every frame
accumulateAllSelf(lm, selfFrame, ix, sample) ==
    [lm EXCEPT
        !.cpuSamples = IF selfFrame THEN @ + cpuOf(ix, sample) ELSE @,
        !.selfCpuPercent = Rat(@.num + cpuOf(ix, sample), 1),
        !.memoryBytes = IF selfFrame THEN @ + memoryOf(ix, sample) ELSE @,
        !.selfMemoryPercent = Rat(@.num + memoryOf(ix, sample), 1),
        !.allocations = @ + allocationsOf(ix, sample)]

\* "Accumulate metrics": the sample's values are added to the line's fields
accumulate(lm, selfFrame, ix, sample) ==
    [lm EXCEPT
        !.cpuSamples = @ + cpuOf(ix, sample),
        !.selfCpuPercent = IF selfFrame THEN Rat(@.num + cpuOf(ix, sample), 1) ELSE @,
        !.memoryBytes = @ + memoryOf(ix, sample),
        !.selfMemoryPercent = IF selfFrame THEN Rat(@.num + memoryOf(ix, sample), 1) ELSE @,
        !.allocations = @ + allocationsOf(ix, sample)]

\* a frame body that sets a fresh LineMetrics for the line on every frame
processFrameReplacing(mm, frame, position, ix, sample) ==
    IF ~frameIsResolved(frame) THEN mm
    ELSE LET resolvedPath == resolveFilePath(frame.filename).result
             key == <<resolvedPath, frame.line>>
         IN  IF resolvedPath = NULL THEN mm
             ELSE [k \in DOMAIN mm \cup {key} |->
                      IF k = key
                      THEN accumulate(NewLineMetrics, isSelfFrame(frame, position), ix, sample)
                      ELSE mm[k]]

\* The body of stack.forEach for one frame
processFrame(mm, frame, position, ix, sample) ==
    IF ~frameIsResolved(frame) THEN mm
    ELSE LET resolvedPath == resolveFilePath(frame.filename).result
             key == <<resolvedPath, frame.line>>
             old == IF key \in DOMAIN mm THEN mm[key] ELSE NewLineMetrics
         IN  IF resolvedPath = NULL THEN mm
             ELSE [k \in DOMAIN mm \cup {key} |->
                      IF k = key THEN accumulate(old, isSelfFrame(frame, position), ix, sample)
                      ELSE mm[k]]

\* a walk over the frames that gives up the sample at the first frame it skips
RECURSIVE processFramesUntilSkipped(_, _, _, _, _)
processFramesUntilSkipped(mm, stack, position, ix, sample) ==
    IF position > Len(stack) THEN mm
    ELSE IF processFrame(mm, stack[position], position, ix, sample) = mm
              /\ ~(frameIsResolved(stack[position])
                   /\ resolveFilePath(stack[position].filename).result # NULL)
         THEN mm
         ELSE processFramesUntilSkipped(processFrame(mm, stack[position], position, ix, sample),
                                        stack, position + 1, ix, sample)

RECURSIVE processFrames(_, _, _, _, _)
processFrames(mm, stack, position, ix, sample) ==
    IF position > Len(stack) THEN mm
    ELSE processFrames(processFrame(mm, stack[position], position, ix, sample),
                       stack, position + 1, ix, sample)

\* The body of the per-sample loop for one sample
processSample(mm, ix, sample) == processFrames(mm, getStackTrace(sample), 1, ix, sample)

\* the resolveFilePath calls one sample causes
resolveCallsOf(sample) ==
    LET stack == getStackTrace(sample)
    IN  Cardinality({ k \in 1..Len(stack) : frameIsResolved(stack[k]) })

\* "Calculate percentages" for one line
percentages(lm, tCpu, tMem) ==
    LET a == IF tCpu > 0
             THEN [lm EXCEPT !.cpuPercent = Rat(lm.cpuSamples * 100, tCpu),
                             !.selfCpuPercent = Rat(lm.selfCpuPercent.num * 100, tCpu)]
             ELSE lm
    IN  IF tMem > 0
        THEN [a EXCEPT !.memoryPercent = Rat(lm.memoryBytes * 100, tMem),
                       !.selfMemoryPercent = Rat(lm.selfMemoryPercent.num * 100, tMem)]
        ELSE a

calculatePercentages(mm, tCpu, tMem) ==
    [k \in DOMAIN mm |-> percentages(mm[k], tCpu, tMem)]

RECURSIVE processSamples(_, _, _)
processSamples(mm, ix, samples) ==
    IF Len(samples) = 0 THEN mm
    ELSE processSamples(processSample(mm, ix, Head(samples)), ix, Tail(samples))

\* the accumulated fields of a whole pass over `samples`, before percentages
aggregate(ix, samples) == processSamples(<<>>, ix, samples)

\* mapSamplesToSource as a function of the profile
mapSamplesToSource(prof) ==
    LET ix == findIndices(prof)
    IN  calculatePercentages(aggregate(ix, prof.samples),
                             computeTotalCpu(ix, prof), computeTotalMemory(ix, prof))

----------------------------------------------------------------------------
(* decompressBuffer (decompressor.ts) *)

\* Bytes of a buffer: the two gzip magic bytes and two other values
Bytes == {0, 1, 31, 139}

Magic1 == 31
Magic2 == 139

\* The trailer of an envelope, standing for the CRC32 / ISIZE check of gzip
trailer(payload) == Len(payload) % 2

\* the gzip envelope of a payload: magic, body, trailer
gzip(payload) == <<Magic1, Magic2>> \o payload \o <<trailer(payload)>>

Ok(buf) == [ok |-> TRUE, buf |-> buf]

Thrown == [ok |-> FALSE, buf |-> <<>>]

\* pako.ungzip: the payload of a well-formed envelope, an exception otherwise
ungzip(buf) ==
    IF Len(buf) < 3 THEN Thrown
    ELSE LET payload == SubSeq(buf, 3, Len(buf) - 1)
         IN  IF buf[Len(buf)] = trailer(payload) THEN Ok(payload) ELSE Thrown

\* data[0] === 0x1f && data[1] === 0x8b
isGzipped(buf) == Len(buf) >= 2 /\ buf[1] = Magic1 /\ buf[2] = Magic2

\* decompressBuffer: unchanged when the magic is absent, else ungzip or throw
decompressBuffer(buf) == IF ~isGzipped(buf) THEN Ok(buf) ELSE ungzip(buf)

\* decompressProfile applies the same test to the bytes read from the file
decompressProfile(buf) == IF ~isGzipped(buf) THEN Ok(buf) ELSE ungzip(buf)

\* The state of a decompressor that was given nothing
DecompIdle == data = <<>> /\ out1 = Thrown /\ out2 = Thrown /\ dpc = "idle"

----------------------------------------------------------------------------
(* ProfileStore (profileStore.ts) *)

NoMetrics == [none |-> TRUE]

NoEntry == [name |-> "null", metrics |-> NoMetrics, origin |-> "null"]

NoInfo == "null"

EmptyStore == [profiles |-> <<>>, profileInfo |-> NoInfo]

\* Map.prototype.set on a Map kept in insertion order, keyed by entry.name
mapSet(profiles, entry) ==
    IF \E i \in 1..Len(profiles) : profiles[i].name = entry.name
    THEN [i \in 1..Len(profiles) |->
            IF profiles[i].name = entry.name THEN entry ELSE profiles[i]]
    ELSE Append(profiles, entry)

RECURSIVE setAll(_, _)
setAll(profiles, entries) ==
    IF Len(entries) = 0 THEN profiles
    ELSE setAll(mapSet(profiles, Head(entries)), Tail(entries))

\* ProfileStore.loadProfiles: the Map is cleared, then filled in entry order
loadProfiles(entries, sessionName) ==
    [profiles |-> setAll(<<>>, entries), profileInfo |-> sessionName]

\* ProfileStore.loadProfile: the one entry is stored under the name cpu
loadProfile(metrics, name) ==
    [profiles |-> setAll(<<>>, << [name |-> "cpu", metrics |-> metrics, origin |-> "load"] >>),
     profileInfo |-> name]

\* ProfileStore.clearProfile
clearProfile == [profiles |-> <<>>, profileInfo |-> NoInfo]

\* ProfileStore.hasProfile: profiles.size > 0
hasProfile(st) == Len(st.profiles) > 0

\* ProfileStore.getProfileInfo
getProfileInfo(st) == st.profileInfo

\* ProfileStore.getLoadedProfileNames: the keys of the Map, in insertion order
getLoadedProfileNames(st) == [k \in 1..Len(st.profiles) |-> st.profiles[k].name]

\* File paths of the store are strings: sequences of characters
Lower(c) == CASE c = "W" -> "w" [] c = "A" -> "a" [] OTHER -> c

\* normalizePath: backslashes become slashes, letters lower case
normalizePath(filePath) ==
    [i \in 1..Len(filePath) |-> IF filePath[i] = "\\" THEN "/" ELSE Lower(filePath[i])]

\* String.prototype.endsWith
endsWith(str, suffix) ==
    Len(suffix) <= Len(str) /\ SubSeq(str, Len(str) - Len(suffix) + 1, Len(str)) = suffix

\* str.split('/').pop(): what follows the last slash
lastSegment(str) ==
    LET slashes == { i \in 1..Len(str) : str[i] = "/" }
    IN  IF slashes = {} THEN str
        ELSE SubSeq(str, (CHOOSE i \in slashes : \A j \in slashes : j <= i) + 1, Len(str))

\* pathsMatch: equal when normalized, or one ends with the other, or the
\* basenames are equal and not empty
pathsMatch(path1, path2) ==
    LET norm1 == normalizePath(path1)
        norm2 == normalizePath(path2)
    IN  \/ norm1 = norm2
        \/ endsWith(norm1, norm2) \/ endsWith(norm2, norm1)
        \/ (lastSegment(norm1) = lastSegment(norm2) /\ lastSegment(norm1) # <<>>)

\* getMetricsForProfile returns null
NoFileMetrics == [found |-> FALSE, filePath |-> <<>>]

\* the FileMetrics of a file: its LineMetrics carry the path they were recorded for
FileMetricsOf(path) == [found |-> TRUE, filePath |-> path]

\* getMetricsForProfile on the ProfileMetrics of one entry (a Map from path to
\* FileMetrics, in insertion order): the exact key, else the first key that
\* pathsMatch accepts
getMetricsIn(metrics, filePath) ==
    LET exact   == { k \in 1..Len(metrics) : metrics[k].path = filePath }
        matches == { k \in 1..Len(metrics) : pathsMatch(metrics[k].path, filePath) }
    IN  IF exact # {} THEN metrics[CHOOSE k \in exact : TRUE].fileMetrics
        ELSE IF matches # {}
        THEN metrics[CHOOSE k \in matches : \A j \in matches : k <= j].fileMetrics
        ELSE NoFileMetrics

\* ProfileStore.getMetricsForProfile
getMetricsForProfile(st, profileName, filePath) ==
    LET named == { k \in 1..Len(st.profiles) : st.profiles[k].name = profileName }
    IN  IF named = {} THEN NoFileMetrics
        ELSE getMetricsIn(st.profiles[CHOOSE k \in named : TRUE].metrics, filePath)

\* The commands before any of them was invoked
CmdIdle ==
    /\ task = <<>>
    /\ cmd = <<>>
    /\ store = EmptyStore
    /\ messages = {}

----------------------------------------------------------------------------
(* A resolver session: one PathResolver, resolveFilePath called repeatedly *)

\* Workspaces: none, one root, two roots, roots nested in one another
FolderChoices ==
    { <<>>, <<WS>>, <<WS, Ext>>, <<WS, WSSub>>, <<WSSub, WS>> }

MappingChoices ==
    { <<>>,
      << [from |-> P(TRUE, <<"app">>), to |-> P(FALSE, <<WorkspaceVar, "sub">>)] >>,
      << [from |-> P(TRUE, <<"ext">>), to |-> P(FALSE, <<WorkspaceVar>>)] >>,
      << [from |-> P(TRUE, <<"app">>), to |-> P(TRUE, <<"gone">>)],
         [from |-> P(TRUE, <<"app">>), to |-> P(TRUE, <<"ext">>)] >> }

\* The profiled paths a session is asked to resolve
ProfilePaths ==
    { P(FALSE, <<"a.go">>), P(FALSE, <<"x", "b.go">>), P(TRUE, <<"ext", "a.go">>),
      P(TRUE, <<"app", "a.go">>), P(TRUE, <<"srv", "c.go">>) }

\* resolveFilePath calls made in one session
MaxCalls == 3

RECURSIVE SumOver(_, _)
SumOver(f, S) == IF S = {} THEN 0
                 ELSE LET x == CHOOSE y \in S : TRUE IN f[x] + SumOver(f, S \ {x})

\* The state of a pass that has not been given a profile
PassIdle ==
    /\ profile = [sampleTypes |-> <<>>, samples |-> <<>>]
    /\ pc = "idle"
    /\ sampleIdx = 0
    /\ idx = [cpuIndex |-> -1, allocSpaceIndex |-> -1, allocObjectsIndex |-> -1,
              inuseSpaceIndex |-> -1]
    /\ uniquePaths = {}
    /\ totalCpu = 0
    /\ totalMemory = 0
    /\ metricsMap = <<>>
    /\ resolveCalls = 0

\* The state of a resolver that has not been called
ResolverFresh ==
    /\ calls = [p \in ProfilePaths |-> 0]
    /\ firstResult = [p \in ProfilePaths |-> NoPath]
    /\ lastPath = NoPath
    /\ lastResult = NoPath
    /\ lastProbes = 0

ResolverInit ==
    /\ files \in SUBSET FileUniverse
    /\ folders \in FolderChoices
    /\ rawMappings \in MappingChoices
    /\ ResolverFresh
    /\ PassIdle
    /\ DecompIdle
    /\ CmdIdle
    /\ ViewIdle

\* One call pathResolver.resolveFilePath(p)
ResolveCall(p) ==
    /\ SumOver(calls, ProfilePaths) < MaxCalls
    /\ LET r == resolveFilePath(p)
       IN  /\ lastPath' = p
           /\ lastResult' = r.result
           /\ lastProbes' = r.probes
           /\ firstResult' = IF calls[p] = 0 THEN [firstResult EXCEPT ![p] = r.result]
                             ELSE firstResult
    /\ calls' = [calls EXCEPT ![p] = @ + 1]
    /\ UNCHANGED <<files, folders, rawMappings>>
    /\ UNCHANGED <<passVars, decompVars, cmdVars, viewVars>>

ResolverNext == \E p \in ProfilePaths : ResolveCall(p)

vars == <<resolverVars, passVars, decompVars, cmdVars, viewVars>>

SpecResolver == ResolverInit /\ [][ResolverNext]_vars

----------------------------------------------------------------------------
(* A fresh resolver with configured mappings, called once *)

\* pyroscope.pathMappings: none; one mapping into the workspace; the variable in
\* both prefixes; a mapping to a directory that does not exist ahead of one that
\* does; two mappings with the same from prefix whose targets may both exist;
\* a mapping of a directory that exists
MappingLists ==
    { <<>>,
      << [from |-> P(TRUE, <<"app">>), to |-> P(FALSE, <<WorkspaceVar, "sub">>)] >>,
      << [from |-> P(FALSE, <<WorkspaceVar, "gen">>), to |-> P(FALSE, <<WorkspaceVar, "sub">>)] >>,
      << [from |-> P(TRUE, <<"app">>), to |-> P(TRUE, <<"gone">>)],
         [from |-> P(TRUE, <<"app">>), to |-> P(TRUE, <<"ext">>)] >>,
      << [from |-> P(TRUE, <<"app">>), to |-> P(FALSE, <<WorkspaceVar>>)],
         [from |-> P(TRUE, <<"app">>), to |-> P(TRUE, <<"ext">>)] >>,
      << [from |-> P(TRUE, <<"ext">>), to |-> P(FALSE, <<WorkspaceVar>>)] >> }

\* profiled paths: below /app, below <first root>/gen, below the text
\* ${workspaceFolder}/gen, and a path that may exist as it is
MappingPaths ==
    { P(TRUE, <<"app", "a.go">>), P(TRUE, <<"ws", "gen", "a.go">>),
      P(FALSE, <<WorkspaceVar, "gen", "a.go">>), P(TRUE, <<"ext", "a.go">>) }

MappingInit ==
    /\ files \in SUBSET FileUniverse
    /\ folders \in FolderChoices
    /\ rawMappings \in MappingLists
    /\ ResolverFresh
    /\ PassIdle
    /\ DecompIdle
    /\ CmdIdle
    /\ ViewIdle

\* new PathResolver(logger).resolveFilePath(p): the first call on a resolver
ResolveOnce(p) ==
    /\ lastPath = NoPath
    /\ LET r == resolveFilePath(p)
       IN  /\ lastPath' = p
           /\ lastResult' = r.result
           /\ lastProbes' = r.probes
    /\ UNCHANGED <<files, folders, rawMappings, calls, firstResult>>
    /\ UNCHANGED <<passVars, decompVars, cmdVars, viewVars>>

MappingNext == \E p \in MappingPaths : ResolveOnce(p)

SpecMappings == MappingInit /\ [][MappingNext]_vars

----------------------------------------------------------------------------
(* One ingestion pass: mapSamplesToSource(profile, pathResolver) *)

\* Samples per profile
MaxSamples == 3

SampleTypeChoices ==
    { <<Str_cpu>>, <<Str_alloc_objects, Str_alloc_space>>,
      <<Str_alloc_space, Str_inuse_space>>, <<Str_goroutine>> }

\* Stacks, innermost location first: a leaf; a callee and its caller; an inlined
\* leaf (B:5 and A:10) below a caller that is A:10 again under its mapped name;
\* a dangling location id, an unresolvable file, an empty filename, a line 0, a
\* dangling function id and a location without lines below the caller B:5; no
\* frame at all; a dangling location id below the caller A:10
Stacks == { <<1>>, <<2, 1>>, <<3, 9>>, <<99, 6, 4, 5, 8, 7, 2>>, <<>>, <<99, 1>> }

\* Sample values, one per sample type; pprof values are signed 64-bit integers
ValueVectors(types) ==
    IF Len(types) = 1 THEN { <<-1>>, <<0>>, <<2>> }
    ELSE { <<1, 0>>, <<0, 2>>, <<-1, 1>> }

Samples(types) ==
    { [locationIds |-> st, values |-> v] : st \in Stacks, v \in ValueVectors(types) }

SeqsUpTo(S, n) == UNION { [1..k -> S] : k \in 0..n }

\* The samples of the longer profiles: an inlined first location with a caller
\* in the same file, and a stack with frames that are skipped
CoreSamples(types) ==
    { [locationIds |-> st, values |-> v] :
        st \in { <<3, 9>>, <<99, 6, 4, 5, 8, 7, 2>> },
        v \in IF Len(types) = 1 THEN { <<-1>>, <<2>> } ELSE { <<1, 0>>, <<-1, 1>> } }

\* Every profile of up to two samples, and the profiles of up to MaxSamples
\* core samples
Profiles ==
    UNION { { [sampleTypes |-> t, samples |-> ss] :
                ss \in SeqsUpTo(Samples(t), 2) \cup SeqsUpTo(CoreSamples(t), MaxSamples) }
            : t \in SampleTypeChoices }

\* The profile of the worked example: sample type cpu, stacks [A:10], [A:10],
\* [B:5, A:10], every value 10
ExampleProfile ==
    [sampleTypes |-> <<Str_cpu>>,
     samples |-> << [locationIds |-> <<1>>, values |-> <<10>>],
                    [locationIds |-> <<1>>, values |-> <<10>>],
                    [locationIds |-> <<2, 1>>, values |-> <<10>>] >>]

\* The workspace of a pass: a.go resolves by the workspace-relative join,
\* x/b.go by the basename fallback, /app/a.go by the mapping, /srv/c.go not at all
PassWorkspace ==
    /\ files = { P(TRUE, <<"ws", "a.go">>), P(TRUE, <<"ws", "sub", "b.go">>) }
    /\ folders = <<WS>>
    /\ rawMappings = << [from |-> P(TRUE, <<"app">>), to |-> P(FALSE, <<WorkspaceVar>>)] >>

Init ==
    /\ PassWorkspace
    /\ ResolverFresh
    /\ profile \in Profiles \cup {ExampleProfile}
    /\ pc = "start"
    /\ sampleIdx = 0
    /\ idx = [cpuIndex |-> -1, allocSpaceIndex |-> -1, allocObjectsIndex |-> -1,
              inuseSpaceIndex |-> -1]
    /\ uniquePaths = {}
    /\ totalCpu = 0
    /\ totalMemory = 0
    /\ metricsMap = <<>>
    /\ resolveCalls = 0
    /\ DecompIdle
    /\ CmdIdle
    /\ ViewIdle

\* From the entry of mapSamplesToSource to the head of the per-sample loop
Begin ==
    /\ pc = "start"
    /\ idx' = findIndices(profile)
    /\ uniquePaths' = collectUniquePaths(profile)
    /\ totalCpu' = computeTotalCpu(findIndices(profile), profile)
    /\ totalMemory' = computeTotalMemory(findIndices(profile), profile)
    /\ metricsMap' = <<>>
    /\ sampleIdx' = 0
    /\ pc' = "loop"
    /\ UNCHANGED <<profile, resolveCalls>>
    /\ UNCHANGED <<resolverVars, decompVars, cmdVars, viewVars>>

\* One iteration of the per-sample loop
ProcessSample ==
    /\ pc = "loop"
    /\ sampleIdx < Len(profile.samples)
    /\ metricsMap' = processSample(metricsMap, idx, profile.samples[sampleIdx + 1])
    /\ resolveCalls' = resolveCalls + resolveCallsOf(profile.samples[sampleIdx + 1])
    /\ sampleIdx' = sampleIdx + 1
    /\ UNCHANGED <<profile, pc, idx, uniquePaths, totalCpu, totalMemory>>
    /\ UNCHANGED <<resolverVars, decompVars, cmdVars, viewVars>>

\* After the loop: the percentages, and the return
Finish ==
    /\ pc = "loop"
    /\ sampleIdx = Len(profile.samples)
    /\ metricsMap' = calculatePercentages(metricsMap, totalCpu, totalMemory)
    /\ pc' = "done"
    /\ UNCHANGED <<profile, sampleIdx, idx, uniquePaths, totalCpu, totalMemory, resolveCalls>>
    /\ UNCHANGED <<resolverVars, decompVars, cmdVars, viewVars>>

Next == Begin \/ ProcessSample \/ Finish

Spec == Init /\ [][Next]_vars

----------------------------------------------------------------------------
(* Passes over profiles with many sample-type lists *)

\* Sample types per profile
MaxTypes == 3

Str_CPU == <<"C", "P", "U">>

\* Type names: the names Go profiles carry, one in upper case, one unknown
TypeNames ==
    { Str_cpu, Str_CPU, Str_samples, Str_alloc_space, Str_bytes, Str_alloc_objects,
      Str_count, Str_inuse_space, Str_goroutine }

\* One sample with the leaf A:10 and the value 1 for every sample type
IndexProfiles ==
    { [sampleTypes |-> t,
       samples |-> << [locationIds |-> <<1>>, values |-> [i \in 1..Len(t) |-> 1]] >>] :
        t \in SeqsUpTo(TypeNames, MaxTypes) }

IndexInit ==
    /\ PassWorkspace
    /\ ResolverFresh
    /\ profile \in IndexProfiles
    /\ pc = "start"
    /\ sampleIdx = 0
    /\ idx = [cpuIndex |-> -1, allocSpaceIndex |-> -1, allocObjectsIndex |-> -1,
              inuseSpaceIndex |-> -1]
    /\ uniquePaths = {}
    /\ totalCpu = 0
    /\ totalMemory = 0
    /\ metricsMap = <<>>
    /\ resolveCalls = 0
    /\ DecompIdle
    /\ CmdIdle
    /\ ViewIdle

SpecIndices == IndexInit /\ [][Next]_vars

----------------------------------------------------------------------------
(* The commands: pyroscope.loadProfile and pyroscope.fetchFromPyroscope *)

\* A profile none of whose frames resolves
UnresolvableProfile ==
    [sampleTypes |-> <<Str_cpu>>,
     samples |-> << [locationIds |-> <<6>>, values |-> <<2>>] >>]

EmptyProfile == [sampleTypes |-> <<>>, samples |-> <<>>]

Parsed(prof) == [ok |-> TRUE, profile |-> prof]

ParseThrown == [ok |-> FALSE, profile |-> EmptyProfile]

\* parseProfile: the decoded message, or an exception.  The wire bytes stand
\* for an encoded message: no byte is the empty message, a leading 0 or 1 are
\* two encoded profiles, a leading 0x1f or 0x8b has no valid wire type.
parseProfile(buf) ==
    IF Len(buf) = 0 THEN Parsed(EmptyProfile)
    ELSE IF buf[1] = 0 THEN Parsed(ExampleProfile)
    ELSE IF buf[1] = 1 THEN Parsed(UnresolvableProfile)
    ELSE ParseThrown

\* The ingestion passes: the one of the load command, and one per profile type
\* selected in the fetch command, in selection order
FetchTasks == <<"fetch1", "fetch2">>

Passes == {"load", "fetch1", "fetch2"}

\* The names of the profile types picked in the quick pick, in selection order.
\* A name is what the server reports for the type (pyroscopeClient.ts
\* getProfileTypes: name: pt.name); types that differ in their sample type can
\* carry the same name.
SelectedTypes == { <<"cpu", "memory">>, <<"memory", "memory">> }

\* type.name of the profile type a fetch task works on
typeName(i) == cmd.selected[IF i = "fetch1" THEN 1 ELSE 2]

SessionName == "app (Last 1 hour)"

\* What a file or a server response may hold: two envelopes of profiles, an
\* envelope with a bad trailer, an envelope of undecodable bytes, a bare profile
CmdInputs ==
    { gzip(<<0>>), gzip(<<1>>), <<Magic1, Magic2, 0, 0>>, gzip(<<Magic1>>), <<0>> }

NewTask ==
    [pc |-> "waiting", buf |-> <<>>, profile |-> EmptyProfile, sampleIdx |-> 0,
     metricsMap |-> <<>>, metrics |-> NoMetrics,
     result |-> NoEntry, cause |-> "none", attempts |-> 0]

\* The per-sample loop yields to the event loop every YIELD_INTERVAL samples
\* (1000 in sourceMapper.ts:102; scaled to the profiles of this model)
YIELD_INTERVAL == 1

\* the sampleIdx at which a pass that runs from `from` stops next: the next
\* positive multiple of YIELD_INTERVAL, or the end of the samples
nextStop(from, n) ==
    LET multiple == ((from \div YIELD_INTERVAL) + 1) * YIELD_INTERVAL
    IN  IF multiple < n THEN multiple ELSE n

\* a resumed pass that drops the sample at which it had yielded
runUntilYieldSkipping(t) ==
    LET n == Len(t.profile.samples)
        stop == nextStop(t.sampleIdx, n)
        first == IF t.sampleIdx > 0 THEN t.sampleIdx + 2 ELSE 1
    IN  [t EXCEPT !.sampleIdx = stop,
                  !.metricsMap = processSamples(t.metricsMap, findIndices(t.profile),
                                                SubSeq(t.profile.samples, first, stop))]

\* The loop runs from the current sampleIdx until it yields again or ends
runUntilYield(t) ==
    LET n == Len(t.profile.samples)
        stop == nextStop(t.sampleIdx, n)
    IN  [t EXCEPT !.sampleIdx = stop,
                  !.metricsMap = processSamples(t.metricsMap, findIndices(t.profile),
                                                SubSeq(t.profile.samples, t.sampleIdx + 1, stop))]

\* a loop that ends at its first yield
loopEndedAtYield(t) == TRUE

\* the loop condition sampleIdx < profile.samples.length has become false
loopEnded(t) == t.sampleIdx >= Len(t.profile.samples)

\* After a run of the loop: suspended at the yield, or the percentages are
\* calculated and the promise of mapSamplesToSource is resolved
afterRun(t) ==
    IF loopEnded(t)
    THEN [t EXCEPT !.pc = "mapping",
                   !.metrics = calculatePercentages(
                                   t.metricsMap,
                                   computeTotalCpu(findIndices(t.profile), t.profile),
                                   computeTotalMemory(findIndices(t.profile), t.profile))]
    ELSE [t EXCEPT !.pc = "yielded"]

CmdInit ==
    /\ task = [i \in Passes |-> NewTask]
    /\ cmd \in { [load |-> "running", fetch |-> "running", selected |-> sel] :
                  sel \in SelectedTypes }
    /\ store = EmptyStore
    /\ messages = {}
    /\ PassWorkspace
    /\ ResolverFresh
    /\ PassIdle
    /\ DecompIdle
    /\ ViewIdle

Msg(kind, about) == [kind |-> kind, about |-> about]

\* the catch block of a fetch task, with the failed type stored as an empty entry
failedTaskResultEmptyEntry(i) == [name |-> typeName(i), metrics |-> <<>>, origin |-> i]

\* The catch block of a fetch task (fetchFromPyroscope.ts:381-387) returns null
failedTaskResult(i) == NoEntry

\* A fetch task ends in its catch block: a warning is shown, the result is null
TaskFails(i, cause) ==
    /\ task' = [task EXCEPT ![i].pc = "returned", ![i].result = failedTaskResult(i),
                            ![i].cause = cause, ![i].attempts = @ + 1]
    /\ messages' = messages \cup {Msg("warning", i)}

\* client.fetchProfile rejects
FetchRejects(i) ==
    /\ cmd.fetch = "running"
    /\ task[i].pc = "waiting"
    /\ TaskFails(i, "network")
    /\ UNCHANGED <<cmd, store>>
    /\ UNCHANGED <<resolverVars, passVars, decompVars, viewVars>>

\* client.fetchProfile resolves; decompressBuffer runs; parseProfile is awaited
FetchResolves(i, input) ==
    /\ cmd.fetch = "running"
    /\ task[i].pc = "waiting"
    /\ IF decompressBuffer(input).ok
       THEN /\ task' = [task EXCEPT ![i].pc = "parsing",
                                    ![i].buf = decompressBuffer(input).buf,
                                    ![i].attempts = @ + 1]
            /\ UNCHANGED messages
       ELSE TaskFails(i, "decompress")
    /\ UNCHANGED <<cmd, store>>
    /\ UNCHANGED <<resolverVars, passVars, decompVars, viewVars>>

\* parseProfile settles; on success a PathResolver is made and
\* mapSamplesToSource is called and awaited
FetchParsed(i) ==
    /\ cmd.fetch = "running"
    /\ task[i].pc = "parsing"
    /\ IF parseProfile(task[i].buf).ok
       THEN /\ task' = [task EXCEPT
                          ![i] = afterRun(runUntilYield(
                                     [@ EXCEPT !.profile = parseProfile(task[i].buf).profile]))]
            /\ UNCHANGED messages
       ELSE /\ task' = [task EXCEPT ![i].pc = "returned", ![i].result = failedTaskResult(i),
                                    ![i].cause = "decode"]
            /\ messages' = messages \cup {Msg("warning", i)}
    /\ UNCHANGED <<cmd, store>>
    /\ UNCHANGED <<resolverVars, passVars, decompVars, viewVars>>

\* setImmediate fires: the pass of a task resumes after its yield
PassResumes(i) ==
    /\ cmd.fetch = "running"
    /\ task[i].pc = "yielded"
    /\ task' = [task EXCEPT ![i] = afterRun(runUntilYield(@))]
    /\ UNCHANGED <<cmd, store, messages>>
    /\ UNCHANGED <<resolverVars, passVars, decompVars, viewVars>>

\* number of files in a ProfileMetrics (metrics.size)
size(mm) == Cardinality({ k[1] : k \in DOMAIN mm })

\* the await of mapSamplesToSource resumes: null when no file matched, else the entry
FetchMapped(i) ==
    /\ cmd.fetch = "running"
    /\ task[i].pc = "mapping"
    /\ task' = [task EXCEPT
                  ![i].pc = "returned",
                  ![i].cause = IF size(task[i].metrics) = 0 THEN "nomatch" ELSE "none",
                  ![i].result = IF size(task[i].metrics) = 0 THEN NoEntry
                                ELSE [name |-> typeName(i), metrics |-> task[i].metrics,
                                      origin |-> i]]
    /\ messages' = IF size(task[i].metrics) = 0
                   THEN messages \cup {Msg("logged", i)} ELSE messages
    /\ UNCHANGED <<cmd, store>>
    /\ UNCHANGED <<resolverVars, passVars, decompVars, viewVars>>

\* results.filter(entry => entry !== null), in the order of the selected types
profileEntries ==
    SelectSeq([k \in 1..Len(FetchTasks) |-> task[FetchTasks[k]].result],
              LAMBDA e : e # NoEntry)

\* Promise.all settles: nothing fetched is an error, else the entries are stored
FetchGather ==
    /\ cmd.fetch = "running"
    /\ \A k \in 1..Len(FetchTasks) : task[FetchTasks[k]].pc = "returned"
    /\ IF Len(profileEntries) = 0
       THEN /\ messages' = messages \cup {Msg("error", "fetch")}
            /\ UNCHANGED store
       ELSE /\ store' = loadProfiles(profileEntries, SessionName)
            /\ messages' = messages \cup {Msg("info", "fetch")}
    /\ cmd' = [cmd EXCEPT !.fetch = "ended"]
    /\ UNCHANGED task
    /\ UNCHANGED <<resolverVars, passVars, decompVars, viewVars>>

\* The load command reads and decompresses the picked file; a failure goes to
\* the catch of the command, which shows an error
LoadRead(input) ==
    /\ cmd.load = "running"
    /\ task["load"].pc = "waiting"
    /\ IF decompressProfile(input).ok
       THEN /\ task' = [task EXCEPT !["load"].pc = "parsing",
                                    !["load"].buf = decompressProfile(input).buf,
                                    !["load"].attempts = @ + 1]
            /\ UNCHANGED <<messages, cmd>>
       ELSE /\ task' = [task EXCEPT !["load"].pc = "returned",
                                    !["load"].cause = "decompress",
                                    !["load"].attempts = @ + 1]
            /\ messages' = messages \cup {Msg("error", "load")}
            /\ cmd' = [cmd EXCEPT !.load = "ended"]
    /\ UNCHANGED store
    /\ UNCHANGED <<resolverVars, passVars, decompVars, viewVars>>

\* parseProfile settles in the load command.  On success mapSamplesToSource is
\* called without await (loadProfile.ts:64): `metrics` is the promise, its
\* size is undefined, and metrics.forEach throws a TypeError that the catch of
\* the command reports; profileStore.loadProfile (line 105) is not reached.
LoadParsed ==
    /\ cmd.load = "running"
    /\ task["load"].pc = "parsing"
    /\ task' = [task EXCEPT
                  !["load"].pc = "returned",
                  !["load"].profile = parseProfile(task["load"].buf).profile,
                  !["load"].cause = IF parseProfile(task["load"].buf).ok
                                    THEN "typeerror" ELSE "decode"]
    /\ messages' = messages \cup {Msg("error", "load")}
    /\ cmd' = [cmd EXCEPT !.load = "ended"]
    /\ UNCHANGED store
    /\ UNCHANGED <<resolverVars, passVars, decompVars, viewVars>>

CmdNext ==
    \/ \E i \in {"fetch1", "fetch2"} : FetchRejects(i)
    \/ \E i \in {"fetch1", "fetch2"}, input \in CmdInputs : FetchResolves(i, input)
    \/ \E i \in {"fetch1", "fetch2"} : FetchParsed(i)
    \/ \E i \in {"fetch1", "fetch2"} : PassResumes(i)
    \/ \E i \in {"fetch1", "fetch2"} : FetchMapped(i)
    \/ FetchGather
    \/ \E input \in CmdInputs : LoadRead(input)
    \/ LoadParsed

SpecCmd == CmdInit /\ [][CmdNext]_vars

\* the pass of the task has run its loop to the end
PassCompleted(i) ==
    /\ task[i].pc \in {"mapping", "returned"}
    /\ task[i].cause \in {"none", "nomatch"}
    /\ task[i].attempts = 1

\* C12: every ProfileMetrics in the ProfileStore (and so every one a listener
\* of the profile-changed event can read) comes from a pass that has processed
\* every sample of its profile and is the complete result for that profile;
\* the store changes only when no pass of the command is still suspended.
C12_StoreHoldsCompletedPassesOnly ==
    /\ \A k \in 1..Len(store.profiles) :
          LET i == store.profiles[k].origin
          IN  /\ task[i].pc = "returned"
              /\ task[i].sampleIdx = Len(task[i].profile.samples)
              /\ store.profiles[k].metrics = mapSamplesToSource(task[i].profile)
    /\ store # EmptyStore => \A i \in {"fetch1", "fetch2"} : task[i].pc = "returned"

\* a pass that was suspended at a yield has been stored
C12_Witness ==
    /\ \E k \in 1..Len(store.profiles) :
          /\ Len(task[store.profiles[k].origin].profile.samples) > YIELD_INTERVAL
          /\ store.profiles[k].metrics # <<>>

\* C13: a pass that has run to its end, suspended at yields and interleaved
\* with the other pass or not, holds exactly the ProfileMetrics that
\* mapSamplesToSource gives for its profile when run in one piece.
C13_YieldsDoNotChangeResult ==
    \A i \in {"fetch1", "fetch2"} :
        PassCompleted(i) => task[i].metrics = mapSamplesToSource(task[i].profile)

\* both passes were suspended at the same time and one has since completed
\* with metrics
C13_Witness ==
    \E i, j \in {"fetch1", "fetch2"} :
        /\ i # j
        /\ PassCompleted(i) /\ size(task[i].metrics) > 0
        /\ Len(task[i].profile.samples) > YIELD_INTERVAL
        /\ task[j].pc = "yielded"

\* the command the pass belongs to
commandOf(i) == IF i = "load" THEN "load" ELSE "fetch"

\* the pass ran to its end and no frame of the profile resolved
NoFileMatched(i) ==
    /\ task[i].pc = "returned"
    /\ task[i].cause \in {"nomatch", "typeerror"}
    /\ size(mapSamplesToSource(task[i].profile)) = 0

\* C11: when a pass has completed with an empty ProfileMetrics and its command
\* has ended, the user was told that no files matched (a warning of the
\* command, or the warning logged for the profile type), and the command has
\* shown no error.
C11_NoMatchIsWarningNotError ==
    \A i \in Passes :
        (NoFileMatched(i) /\ cmd[commandOf(i)] = "ended") =>
            /\ \E m \in messages :
                  \/ m = Msg("nomatch", commandOf(i))
                  \/ m = Msg("logged", i)
            /\ Msg("error", commandOf(i)) \notin messages

\* the pass failed in decompression or in decoding
FailedFatally(i) == task[i].pc = "returned" /\ task[i].cause \in {"decompress", "decode"}

\* C10: a pass whose decompression or decoding failed has reported a failure to
\* the user, was attempted once, has produced no ProfileMetrics, and nothing of
\* it is ever in the ProfileStore.
C10_FatalFailureStoresNothing ==
    \A i \in Passes :
        FailedFatally(i) =>
            /\ \E m \in messages : m.about = i /\ m.kind \in {"error", "warning"}
            /\ task[i].attempts <= 1
            /\ task[i].metrics = NoMetrics
            /\ task[i].result = NoEntry
            /\ \A k \in 1..Len(store.profiles) : store.profiles[k].origin # i

\* one fetch task failed to decompress, the other one was stored
C10_Witness ==
    /\ cmd.fetch = "ended"
    /\ \E i \in {"fetch1", "fetch2"} : FailedFatally(i) /\ task[i].cause = "decompress"
    /\ Len(store.profiles) = 1

----------------------------------------------------------------------------
(* renderHint (decorations/hintRenderer.ts).  Percentages are numbers of    *)
(* tenths of a percent, so 10 is 1.0% and 5 is 0.5%.                       *)

\* renderHint returns null
NoHint == [isNull |-> TRUE, parts |-> <<>>, color |-> "none"]

\* renderHint was not called yet
NotRendered == [isNull |-> TRUE, parts |-> <<>>, color |-> "not rendered"]

Max2(a, b) == IF a >= b THEN a ELSE b

\* formatPercent: the number of decimals depends on the magnitude
formatPercent(value) ==
    [value |-> value,
     decimals |-> IF value >= 100 THEN 1 ELSE IF value >= 10 THEN 2 ELSE 3]

\* formatNanoseconds: the amount with the largest unit that it reaches
formatNanoseconds(nanoseconds) ==
    [of |-> nanoseconds,
     unit |-> IF nanoseconds \div 1000000000 >= 60 THEN "min"
              ELSE IF nanoseconds >= 1000000000 THEN "s"
              ELSE IF nanoseconds >= 1000000 THEN "ms"
              ELSE IF nanoseconds >= 1000 THEN "us"
              ELSE "ns"]

\* formatBytes: the amount with the power of 1024 that it reaches
formatBytes(bytes) ==
    [of |-> bytes,
     unit |-> IF bytes < 1024 THEN "B"
              ELSE IF bytes < 1024 * 1024 THEN "KB"
              ELSE IF bytes < 1024 * 1024 * 1024 THEN "MB"
              ELSE "GB"]

\* getColor: the colour for a percentage under a colour scheme
getColor(percent, scheme) ==
    IF scheme = "minimal" THEN "gray"
    ELSE IF scheme = "threshold"
    THEN IF percent >= 100 THEN "red"
         ELSE IF percent >= 50 THEN "orange"
         ELSE "yellow"
    ELSE IF percent >= 150 THEN "red"
    ELSE IF percent >= 100 THEN "orange-red"
    ELSE IF percent >= 50 THEN "orange"
    ELSE IF percent >= 20 THEN "yellow-orange"
    ELSE "light-green"

\* one part of the hint text: its label, the percentage of the line for the
\* metric it shows, and the formatted values in the text
HintPart(label, percent, text) == [label |-> label, percent |-> percent, text |-> text]

Join(parts, color) ==
    IF Len(parts) = 0 THEN NoHint ELSE [isNull |-> FALSE, parts |-> parts, color |-> color]

\* "Check threshold" of the single-profile form
belowThreshold(metrics, config) ==
    Max2(metrics.selfCpuPercent, metrics.selfMemoryPercent) < config.threshold

renderSingleProfileHint(metrics, config) ==
    LET maxPercent == Max2(metrics.selfCpuPercent, metrics.selfMemoryPercent)
        cpuPart ==
            IF config.displayMode \in {"cpu", "both"} /\ metrics.selfCpuPercent > 0
            THEN IF metrics.memoryBytes > 0 /\ config.displayMode = "cpu"
                 THEN << HintPart("CPU", metrics.selfCpuPercent,
                                  <<formatPercent(metrics.selfCpuPercent),
                                    formatNanoseconds(metrics.memoryBytes)>>) >>
                 ELSE << HintPart("CPU", metrics.selfCpuPercent,
                                  <<formatPercent(metrics.selfCpuPercent)>>) >>
            ELSE <<>>
        memPart ==
            IF config.displayMode \in {"memory", "both"} /\ metrics.memoryBytes > 0
            THEN << HintPart("Mem", metrics.selfMemoryPercent,
                             <<formatBytes(metrics.memoryBytes)>>) >>
            ELSE <<>>
    IN  IF belowThreshold(metrics, config) THEN NoHint
        ELSE Join(cpuPart \o memPart, getColor(maxPercent, config.colorScheme))

\* Map.prototype.get on the Map of profile name -> {metrics, unit}
mapHas(profileMetrics, profileName) ==
    \E k \in 1..Len(profileMetrics) : profileMetrics[k].name = profileName

mapGet(profileMetrics, profileName) ==
    profileMetrics[CHOOSE k \in 1..Len(profileMetrics) :
                       profileMetrics[k].name = profileName]

\* config.displayProfiles is not set
NoProfiles == [isSet |-> FALSE, names |-> <<>>]

DisplayProfiles(names) == [isSet |-> TRUE, names |-> names]

\* the part of one profile in the multi-profile hint, without its threshold check
multiPartUnchecked(profileName, entry, config) ==
    LET m == entry.metrics
    IN  IF entry.unit = "nanoseconds"
        THEN << HintPart(profileName, m.selfCpuPercent,
                         IF m.memoryBytes > 0
                         THEN <<formatPercent(m.selfCpuPercent),
                                formatNanoseconds(m.memoryBytes)>>
                         ELSE <<formatPercent(m.selfCpuPercent)>>) >>
        ELSE IF entry.unit = "bytes"
        THEN << HintPart(profileName, m.selfMemoryPercent,
                         <<formatBytes(m.memoryBytes),
                           formatPercent(m.selfMemoryPercent)>>) >>
        ELSE IF entry.unit = "count"
        THEN << HintPart(profileName, m.selfCpuPercent, <<m.cpuSamples>>) >>
        ELSE << HintPart(profileName, m.selfCpuPercent,
                         <<formatPercent(m.selfCpuPercent)>>) >>

\* The part of one profile in the multi-profile hint: none when the percent of
\* the field that belongs to its unit is below the threshold
multiPart(profileName, entry, config) ==
    LET percent == IF entry.unit = "bytes" THEN entry.metrics.selfMemoryPercent
                   ELSE entry.metrics.selfCpuPercent
    IN  IF percent < config.threshold THEN <<>>
        ELSE multiPartUnchecked(profileName, entry, config)

RECURSIVE multiParts(_, _, _)
multiParts(displayProfiles, profileMetrics, config) ==
    IF Len(displayProfiles) = 0 THEN <<>>
    ELSE (IF ~mapHas(profileMetrics, Head(displayProfiles)) THEN <<>>
          ELSE multiPart(Head(displayProfiles),
                         mapGet(profileMetrics, Head(displayProfiles)), config))
         \o multiParts(Tail(displayProfiles), profileMetrics, config)

RECURSIVE maxPercentOf(_)
maxPercentOf(parts) ==
    IF Len(parts) = 0 THEN 0 ELSE Max2(Head(parts).percent, maxPercentOf(Tail(parts)))

renderMultiProfileHint(profileMetrics, config) ==
    LET displayProfiles ==
            IF config.displayProfiles.isSet THEN config.displayProfiles.names
            ELSE [k \in 1..Len(profileMetrics) |-> profileMetrics[k].name]
        parts == multiParts(displayProfiles, profileMetrics, config)
    IN  Join(parts, getColor(maxPercentOf(parts), config.colorScheme))

\* renderHint: a Map argument takes the multi-profile form
renderHint(arg, config) ==
    IF arg.isMap THEN renderMultiProfileHint(arg.map, config)
    ELSE renderSingleProfileHint(arg.metrics, config)

\* The LineMetrics, Maps and configs rendered
HintPercents == {0, 5, 10, 120}

HintLineMetrics ==
    [selfCpuPercent : HintPercents, selfMemoryPercent : HintPercents,
     memoryBytes : {0, 2048}, cpuSamples : {7}]

HintMultiLineMetrics ==
    { m \in HintLineMetrics : m.selfCpuPercent \in {5, 10} /\ m.selfMemoryPercent \in {0, 10} }

HintUnits ==
    { [name |-> "cpu", unit |-> "nanoseconds"], [name |-> "memory", unit |-> "bytes"],
      [name |-> "goroutine", unit |-> "count"], [name |-> "block", unit |-> "samples"] }

HintMapEntries ==
    { [name |-> u.name, unit |-> u.unit, metrics |-> m] : u \in HintUnits, m \in HintMultiLineMetrics }

HintMaps ==
    { <<e>> : e \in HintMapEntries }
    \cup { <<e1, e2>> : e1 \in { e \in HintMapEntries : e.name = "cpu" },
                        e2 \in { e \in HintMapEntries : e.name = "memory" } }

HintConfigs ==
    [displayMode : {"cpu", "memory", "both"}, colorScheme : {"heatmap", "threshold", "minimal"},
     threshold : {0, 10}, displayProfiles : {NoProfiles, DisplayProfiles(<<"memory", "cpu">>),
                       DisplayProfiles(<<"goroutine">>)}]

HintCalls ==
    { [arg |-> [isMap |-> FALSE, metrics |-> m, map |-> <<>>], config |-> c] :
          m \in HintLineMetrics, c \in { c \in HintConfigs : c.displayProfiles = NoProfiles } }
    \cup { [arg |-> [isMap |-> TRUE, metrics |-> CHOOSE m \in HintLineMetrics : TRUE, map |-> mp], config |-> c] :
          mp \in HintMaps, c \in { c \in HintConfigs : c.displayMode = "both"
                                                     /\ c.colorScheme = "heatmap" } }

HintInit ==
    /\ hintIn \in HintCalls
    /\ hintOut = NotRendered
    /\ fnIn = "none"
    /\ fnOut = "none"
    /\ UiIdle
    /\ files = {} /\ folders = <<>> /\ rawMappings = <<>>
    /\ ResolverFresh
    /\ PassIdle
    /\ DecompIdle
    /\ CmdIdle

\* One call renderHint(arg, config)
RenderHint ==
    /\ hintOut = NotRendered
    /\ hintOut' = renderHint(hintIn.arg, hintIn.config)
    /\ UNCHANGED <<hintIn, fnIn, fnOut, uiVars>>
    /\ UNCHANGED <<resolverVars, passVars, decompVars, cmdVars>>

HintNext == RenderHint

SpecHint == HintInit /\ [][HintNext]_vars

\* C16: a hint that renderHint returns has no part whose percentage (self CPU
\* percent for a CPU part, self memory percent for a memory part, the
\* profile's percent in the multi-profile form) is below the threshold.
C16_NoHintBelowThreshold ==
    ~hintOut.isNull =>
        \A k \in 1..Len(hintOut.parts) : hintOut.parts[k].percent >= hintIn.config.threshold

----------------------------------------------------------------------------
(* The function aggregator: line metrics of one file are rolled up into     *)
(* per-function metrics over the ranges of an outline provider.  The        *)
(* repository plans it in decorations/functionMetricsAggregator.ts; the     *)
(* sources hold its interfaces and aggregation logic, the retention rule    *)
(* is taken from the specification.  Percentages are tenths of a percent.   *)

FileLines == 1..3

NoLine == [present |-> FALSE, selfCpuPercent |-> 0, selfMemoryPercent |-> 0,
           cpuPercent |-> 0, memoryPercent |-> 0]

Line(selfCpu, cpu, selfMem, mem) ==
    [present |-> TRUE, selfCpuPercent |-> selfCpu, selfMemoryPercent |-> selfMem,
     cpuPercent |-> cpu, memoryPercent |-> mem]

\* the lines of the range that have metrics
contributingLines(lines, range) ==
    { l \in FileLines : range.startLine <= l /\ l <= range.endLine /\ lines[l].present }

RECURSIVE sumLines(_, _, _)
sumLines(lines, S, field) ==
    IF S = {} THEN 0
    ELSE LET l == CHOOSE x \in S : TRUE
         IN  lines[l][field] + sumLines(lines, S \ {l}, field)

AnonymousLabel == "(anonymous)"

\* "Metric Aggregation Logic": self and cumulative fields are summed
\* independently over the lines of the range
aggregateRange(lines, range) ==
    LET S == contributingLines(lines, range)
    IN  [name |-> IF range.name = "" THEN AnonymousLabel ELSE range.name,
         startLine |-> range.startLine, endLine |-> range.endLine,
         selfCpuPercent |-> sumLines(lines, S, "selfCpuPercent"),
         selfMemoryPercent |-> sumLines(lines, S, "selfMemoryPercent"),
         cumulativeCpuPercent |-> sumLines(lines, S, "cpuPercent"),
         cumulativeMemoryPercent |-> sumLines(lines, S, "memoryPercent")]

functionMax(fm) ==
    Max2(Max2(fm.selfCpuPercent, fm.selfMemoryPercent),
         Max2(fm.cumulativeCpuPercent, fm.cumulativeMemoryPercent))

\* retention only of a function that exceeds the threshold
retainedIfExceeds(fm, threshold) == functionMax(fm) > threshold

\* "Threshold Application": retained when the maximum reaches the threshold
retained(fm, threshold) == functionMax(fm) >= threshold

\* a range is dropped when no line contributes, when it has no name and
\* anonymous functions are not included, or by the threshold
keepsRange(lines, range, config) ==
    /\ contributingLines(lines, range) # {}
    /\ (range.name # "" \/ config.includeAnonymous)
    /\ retained(aggregateRange(lines, range), config.threshold)

RECURSIVE aggregateFunctions(_, _, _)
aggregateFunctions(lines, ranges, config) ==
    IF Len(ranges) = 0 THEN <<>>
    ELSE (IF keepsRange(lines, Head(ranges), config)
          THEN <<aggregateRange(lines, Head(ranges))>> ELSE <<>>)
         \o aggregateFunctions(lines, Tail(ranges), config)

\* The files, outlines and configs aggregated: the line of the threshold
\* scenario (self CPU 0.5%, cumulative CPU 2.0%), a caller line, a memory line
FnLineChoices == { NoLine, Line(5, 20, 0, 0), Line(0, 10, 0, 0), Line(0, 0, 30, 30) }

FnRanges ==
    << [name |-> "outer", startLine |-> 1, endLine |-> 3],
       [name |-> "inner", startLine |-> 2, endLine |-> 2],
       [name |-> "", startLine |-> 3, endLine |-> 3] >>

FnConfigs == [threshold : {0, 10, 20, 30}, includeAnonymous : BOOLEAN]

NotAggregated == [done |-> FALSE, functions |-> <<>>]

FnInit ==
    /\ fnIn \in [lines : [FileLines -> FnLineChoices], ranges : {FnRanges}, config : FnConfigs]
    /\ fnOut = NotAggregated
    /\ hintIn = "none"
    /\ hintOut = "none"
    /\ UiIdle
    /\ files = {} /\ folders = <<>> /\ rawMappings = <<>>
    /\ ResolverFresh
    /\ PassIdle
    /\ DecompIdle
    /\ CmdIdle

\* One run of the aggregator over the outline of a file
AggregateFunctions ==
    /\ ~fnOut.done
    /\ fnOut' = [done |-> TRUE,
                 functions |-> aggregateFunctions(fnIn.lines, fnIn.ranges, fnIn.config)]
    /\ UNCHANGED <<hintIn, hintOut, fnIn, uiVars>>
    /\ UNCHANGED <<resolverVars, passVars, decompVars, cmdVars>>

FnNext == AggregateFunctions

SpecFn == FnInit /\ [][FnNext]_vars

\* the range is among the returned FunctionMetrics
Retained(range) ==
    \E k \in 1..Len(fnOut.functions) :
        /\ fnOut.functions[k].startLine = range.startLine
        /\ fnOut.functions[k].endLine = range.endLine

\* some of the four summed percentages of the range reaches the threshold
SomePercentReaches(range) ==
    \E field \in {"selfCpuPercent", "selfMemoryPercent", "cpuPercent", "memoryPercent"} :
        sumLines(fnIn.lines, contributingLines(fnIn.lines, range), field)
            >= fnIn.config.threshold

\* the range reaches the threshold step: it has lines with metrics, and a
\* name unless anonymous functions are included
Considered(range) ==
    /\ contributingLines(fnIn.lines, range) # {}
    /\ (range.name # "" \/ fnIn.config.includeAnonymous)

----------------------------------------------------------------------------
(* decompressBuffer applied to a buffer, and again to its own output *)

\* Length of an input buffer
MaxBufLen == 6

Buffers == SeqsUpTo(Bytes, MaxBufLen)

DecompInit ==
    /\ data \in Buffers
    /\ out1 = Thrown
    /\ out2 = Thrown
    /\ dpc = "input"
    /\ PassWorkspace
    /\ ResolverFresh
    /\ PassIdle
    /\ CmdIdle
    /\ ViewIdle

\* decompressBuffer(data)
DecompressOnce ==
    /\ dpc = "input"
    /\ out1' = decompressBuffer(data)
    /\ dpc' = "once"
    /\ UNCHANGED <<data, out2>>
    /\ UNCHANGED <<resolverVars, passVars, cmdVars, viewVars>>

\* decompressBuffer applied to the output of a successful first call
DecompressAgain ==
    /\ dpc = "once"
    /\ out1.ok
    /\ out2' = decompressBuffer(out1.buf)
    /\ dpc' = "twice"
    /\ UNCHANGED <<data, out1>>
    /\ UNCHANGED <<resolverVars, passVars, cmdVars, viewVars>>

DecompNext == DecompressOnce \/ DecompressAgain

SpecDecompress == DecompInit /\ [][DecompNext]_vars

\* C9: decompressBuffer is idempotent: applied to its own (successful) output
\* it returns that output unchanged, also when the output begins with 0x1f 0x8b.
C9_Idempotent == dpc = "twice" => (out2.ok /\ out2.buf = out1.buf)

----------------------------------------------------------------------------
(* Properties of a resolver session *)

HiddenNames == {".hid"}

\* f lies below root r with no hidden directory on the way down
VisibleUnder(f, r) ==
    /\ startsWith(f, r)
    /\ Len(f.comps) > Len(r.comps)
    /\ \A k \in (Len(r.comps) + 1)..(Len(f.comps) - 1) : f.comps[k] \notin HiddenNames

\* the distinct workspace files, outside hidden directories, named like p
Candidates(p) ==
    { f \in files : /\ basename(f) = basename(p)
                    /\ \E i \in 1..Len(folders) : VisibleUnder(f, folders[i]) }

\* no configured mapping applies to p
NoMappingMatches(p) ==
    \A i \in 1..Len(rawMappings) : ~startsWith(p, rawMappings[i].from)

\* mappings, absolute check and workspace-relative join all fail for p
StrongerStrategiesFail(p) ==
    /\ \A i \in 1..Len(pathMappings) :
          startsWith(p, pathMappings[i].from) =>
              ~existsSync(join(pathMappings[i].to, substring(p, pathMappings[i].from)))
    /\ ~(isAbsolute(p) /\ existsSync(p))
    /\ \A i \in 1..Len(folders) : ~existsSync(join(folders[i], p))

Resolved == lastPath # NoPath

\* C2: a profiled path that matches no mapping, does not exist as an absolute
\* path nor joined onto a workspace root, and whose basename is carried by two
\* or more distinct workspace files (as the fallback enumerates them, outside
\* hidden directories) resolves to null, never to one of the candidates.
C2_AmbiguousBasenameUnresolved ==
    (/\ Resolved
     /\ NoMappingMatches(lastPath)
     /\ ~(isAbsolute(lastPath) /\ existsSync(lastPath))
     /\ \A i \in 1..Len(folders) : ~existsSync(join(folders[i], lastPath))
     /\ Cardinality(Candidates(lastPath)) >= 2)
    => (lastResult = NULL /\ lastResult \notin Candidates(lastPath))

C2_Witness ==
    /\ Resolved
    /\ NoMappingMatches(lastPath)
    /\ StrongerStrategiesFail(lastPath)
    /\ Cardinality(Candidates(lastPath)) >= 2
    /\ lastResult = NULL

\* C3: when the stronger strategies all fail, the basename fallback resolves
\* the path to a file if and only if exactly one workspace file outside hidden
\* directories has that basename (and then to that file), whatever the roots.
C3_ExactlyOneResolves ==
    (Resolved /\ StrongerStrategiesFail(lastPath))
    => /\ (lastResult # NULL) <=> (Cardinality(Candidates(lastPath)) = 1)
       /\ lastResult # NULL => lastResult \in Candidates(lastPath)

\* the file a mapping sends p to
MappedPath(p, i) == join(pathMappings[i].to, substring(p, pathMappings[i].from))

\* the mappings whose prefix p has, and those of them whose mapped file exists
PrefixMappings(p) == { i \in 1..Len(pathMappings) : startsWith(p, pathMappings[i].from) }

MatchingMappings(p) == { i \in PrefixMappings(p) : existsSync(MappedPath(p, i)) }

\* the workspace folders under which p exists
MatchingFolders(p) == { i \in 1..Len(folders) : existsSync(join(folders[i], p)) }

Least(S) == CHOOSE i \in S : \A j \in S : i <= j

\* C14: the result of a call is that of the first strategy that matches, in
\* the order mappings (in configured order), absolute path, workspace folders
\* (in workspace order), basename fallback; a call that a mapping or the
\* absolute check answers has probed nothing of the later strategies.
C14_FirstMatchingStrategyWins ==
    lastPath # NoPath =>
        LET p == lastPath
        IN  IF MatchingMappings(p) # {}
            THEN /\ lastResult = MappedPath(p, Least(MatchingMappings(p)))
                 /\ lastProbes = Cardinality({ i \in PrefixMappings(p) :
                                                 i <= Least(MatchingMappings(p)) })
            ELSE IF isAbsolute(p) /\ existsSync(p)
            THEN /\ lastResult = p
                 /\ lastProbes = Cardinality(PrefixMappings(p)) + 1
            ELSE IF MatchingFolders(p) # {}
            THEN lastResult = join(folders[Least(MatchingFolders(p))], p)
            ELSE lastResult = tryBasename(p).result

\* a path that a mapping sends to an existing file and that exists itself as
\* an absolute path was resolved to the mapped file
C14_Witness ==
    /\ lastPath # NoPath
    /\ MatchingMappings(lastPath) # {}
    /\ isAbsolute(lastPath) /\ existsSync(lastPath)
    /\ lastResult # lastPath
    /\ lastResult = MappedPath(lastPath, 1)

\* C4: a second call with the same profiled path issues no filesystem probe
\* and returns what the first call returned.
C4_SecondCallProbesNothing ==
    (Resolved /\ calls[lastPath] >= 2)
    => (lastProbes = 0 /\ lastResult = firstResult[lastPath])

----------------------------------------------------------------------------
(* Properties of an ingestion pass *)

Done == pc = "done"

KeyA10 == <<P(TRUE, <<"ws", "a.go">>), 10>>
KeyB5 == <<P(TRUE, <<"ws", "sub", "b.go">>), 5>>

SelfWithinCumulative ==
    \A k \in DOMAIN metricsMap :
        /\ RatLeq(metricsMap[k].selfCpuPercent, metricsMap[k].cpuPercent)
        /\ RatLeq(metricsMap[k].selfMemoryPercent, metricsMap[k].memoryPercent)

NonNegativeValues ==
    \A i \in 1..Len(profile.samples) :
        \A j \in 1..Len(profile.samples[i].values) : profile.samples[i].values[j] >= 0

\* C1 as stated: after the pass, selfCpuPercent <= cpuPercent and
\* selfMemoryPercent <= memoryPercent on every line, for every combination of
\* sample values.
C1_SelfLeqCumulativeAnyValues == Done => SelfWithinCumulative

\* C1 as amended: after the pass, selfCpuPercent <= cpuPercent and
\* selfMemoryPercent <= memoryPercent on every line, provided no sample value
\* is negative.
C1_SelfLeqCumulative == (Done /\ NonNegativeValues) => SelfWithinCumulative

\* a line with a positive self value strictly below its cumulative value
C1_Witness ==
    /\ Done
    /\ NonNegativeValues
    /\ \E k \in DOMAIN metricsMap :
          \/ /\ metricsMap[k].selfCpuPercent.num > 0
             /\ ~RatLeq(metricsMap[k].cpuPercent, metricsMap[k].selfCpuPercent)
          \/ /\ metricsMap[k].selfMemoryPercent.num > 0
             /\ ~RatLeq(metricsMap[k].memoryPercent, metricsMap[k].selfMemoryPercent)

\* The (location position, line position) pairs of a sample that name an
\* existing location and an existing function
FrameSites(sample) ==
    { site \in (1..Len(sample.locationIds)) \X (1..2) :
        /\ sample.locationIds[site[1]] \in DOMAIN locations
        /\ site[2] <= Len(locations[sample.locationIds[site[1]]])
        /\ locations[sample.locationIds[site[1]]][site[2]].functionId \in DOMAIN functions }

SiteLine(sample, site) == locations[sample.locationIds[site[1]]][site[2]]

SiteFile(sample, site) == functions[SiteLine(sample, site).functionId].filename

\* what each filename of the function table resolves to
ResolutionTable ==
    [f \in { functions[i].filename : i \in DOMAIN functions } \ {EmptyName} |->
        resolveFilePath(f).result]

\* the frame at the site has a filename, a line, and a file it resolves to
SiteCounts(sample, site, res) ==
    /\ SiteFile(sample, site) # EmptyName
    /\ SiteLine(sample, site).line # 0
    /\ res[SiteFile(sample, site)] # NULL

SiteKey(sample, site, res) == <<res[SiteFile(sample, site)], SiteLine(sample, site).line>>

\* per sample among the first n, its frames that land on an entry, each with
\* the position of its location and its key
LandedSites(n, res) ==
    [i \in 1..n |->
        { [site |-> st, key |-> SiteKey(profile.samples[i], st, res)] :
            st \in { st \in FrameSites(profile.samples[i]) :
                       SiteCounts(profile.samples[i], st, res) } }]

\* the keys the samples land on
KeysOf(landed) == UNION { { x.key : x \in landed[i] } : i \in DOMAIN landed }

\* the number of frames of sample i on the key; with leafOnly, of those of the
\* location at position 0 of the sample's location list
SitesOn(landed, i, key, leafOnly) ==
    Cardinality({ x \in landed[i] : x.key = key /\ (leafOnly => x.site[1] = 1) })

\* what the samples add to a key: the value of each sample, once per frame on
\* the key
CpuCredit(landed, key, leafOnly) ==
    SumSeq([i \in DOMAIN landed |->
               cpuOf(idx, profile.samples[i]) * SitesOn(landed, i, key, leafOnly)])

MemoryCredit(landed, key, leafOnly) ==
    SumSeq([i \in DOMAIN landed |->
               memoryOf(idx, profile.samples[i]) * SitesOn(landed, i, key, leafOnly)])

\* C17: in the per-sample loop, after any number of samples, every entry holds
\* as cumulative fields the values of the samples once per resolved frame on
\* its (path, line) at any depth, and as self fields the values once per frame
\* of the location at position 0 of the sample's location list only.
C17_SelfOnlyForFirstLocation ==
    pc = "loop" =>
        LET landed == LandedSites(sampleIdx, ResolutionTable)
        IN  /\ DOMAIN metricsMap = KeysOf(landed)
            /\ \A key \in DOMAIN metricsMap :
                  /\ metricsMap[key].cpuSamples = CpuCredit(landed, key, FALSE)
                  /\ metricsMap[key].memoryBytes = MemoryCredit(landed, key, FALSE)
                  /\ metricsMap[key].selfCpuPercent.num = CpuCredit(landed, key, TRUE)
                  /\ metricsMap[key].selfMemoryPercent.num = MemoryCredit(landed, key, TRUE)

\* the sample with the inlined first location [B:5, A:10] and the caller
\* /app/a.go:10 was processed: a.go:10 holds its value twice as cumulative
\* and once as self, b.go:5 once as both
C17_Witness ==
    /\ pc = "loop"
    /\ sampleIdx = 1
    /\ profile.samples[1].locationIds = <<3, 9>>
    /\ KeyA10 \in DOMAIN metricsMap /\ KeyB5 \in DOMAIN metricsMap
    /\ metricsMap[KeyA10].selfCpuPercent.num = 2
    /\ metricsMap[KeyA10].cpuSamples = 4
    /\ metricsMap[KeyB5].selfCpuPercent.num = 2

\* C18: when the pass has finished, the entries are exactly the (path, line)
\* pairs of the frames that have a filename, a non-zero line and a file they
\* resolve to, and each holds the values of every sample with such a frame on
\* it, whatever other frames of the same sample were skipped.
C18_SkippedFramesOnTheirOwn ==
    pc = "done" =>
        LET landed == LandedSites(Len(profile.samples), ResolutionTable)
        IN  /\ DOMAIN metricsMap = KeysOf(landed)
            /\ \A key \in DOMAIN metricsMap :
                  /\ key[2] # 0
                  /\ key[1] \in files
                  /\ metricsMap[key].cpuSamples = CpuCredit(landed, key, FALSE)
                  /\ metricsMap[key].memoryBytes = MemoryCredit(landed, key, FALSE)

\* a pass has finished over a sample whose stack holds an unknown location,
\* an unresolved file, an empty filename and a line 0 ahead of b.go:5, and
\* b.go:5 was credited
C18_Witness ==
    /\ pc = "done"
    /\ \E i \in 1..Len(profile.samples) :
          /\ profile.samples[i].locationIds = <<99, 6, 4, 5, 8, 7, 2>>
          /\ cpuOf(idx, profile.samples[i]) # 0
    /\ KeyB5 \in DOMAIN metricsMap
    /\ metricsMap[KeyB5].cpuSamples # 0

\* the sum of the values at one sample type index over every sample
SumAtIndex(index) ==
    IF index = -1 THEN 0
    ELSE SumSeq([i \in 1..Len(profile.samples) |-> profile.samples[i].values[index + 1]])

\* the memory sample type of the profile: alloc_space, else inuse_space
MemoryIndex ==
    IF findIndices(profile).allocSpaceIndex # -1 THEN findIndices(profile).allocSpaceIndex
    ELSE findIndices(profile).inuseSpaceIndex

\* C19: once the totals are computed, totalCpu is the sum over every sample of
\* the value at the CPU index, and totalMemory the sum over every sample of
\* the value at the one memory index of the profile.
C19_TotalsSumOneSampleType ==
    pc # "start" =>
        /\ totalCpu = SumAtIndex(findIndices(profile).cpuIndex)
        /\ totalMemory = SumAtIndex(MemoryIndex)

\* C20: in the returned ProfileMetrics, the CPU percent fields of every entry
\* are zero when totalCpu is zero, and the memory percent fields are zero when
\* totalMemory is zero.
C20_ZeroTotalGivesZeroPercent ==
    pc = "done" =>
        /\ totalCpu = 0 =>
              \A key \in DOMAIN metricsMap :
                  /\ metricsMap[key].cpuPercent.num = 0
                  /\ metricsMap[key].selfCpuPercent.num = 0
        /\ totalMemory = 0 =>
              \A key \in DOMAIN metricsMap :
                  /\ metricsMap[key].memoryPercent.num = 0
                  /\ metricsMap[key].selfMemoryPercent.num = 0

\* C5: every unique profiled path is resolved exactly once before the
\* per-sample loop starts, and the resolution attempts of a pass stay within
\* the number of unique paths.
C5_ResolutionBoundedByUniquePaths ==
    /\ (pc = "loop" /\ sampleIdx = 0) => resolveCalls = Cardinality(uniquePaths)
    /\ Done => resolveCalls <= Cardinality(uniquePaths)

IsExample == profile = ExampleProfile

\* C7 as stated: in the worked example the total is 30, A:10 has self 30 (100%)
\* and cumulative 30 (100%), B:5 has self 10 and cumulative 10 (about 33.3%).
C7_ExampleAsStated ==
    (Done /\ IsExample) =>
        /\ totalCpu = 30
        /\ DOMAIN metricsMap = {KeyA10, KeyB5}
        /\ RatEq(metricsMap[KeyA10].selfCpuPercent, Rat(100, 1))
        /\ metricsMap[KeyA10].cpuSamples = 30
        /\ RatEq(metricsMap[KeyA10].cpuPercent, Rat(100, 1))
        /\ RatEq(metricsMap[KeyB5].selfCpuPercent, Rat(1000, 30))
        /\ metricsMap[KeyB5].cpuSamples = 10
        /\ RatEq(metricsMap[KeyB5].cpuPercent, Rat(1000, 30))

\* C7 as amended: in the worked example the total is 30, A:10 has self 20
\* (about 66.7%: it is the innermost frame of the first two samples only) and
\* cumulative 30 (100%), B:5 has self 10 and cumulative 10 (about 33.3%).
C7_Example ==
    (Done /\ IsExample) =>
        /\ totalCpu = 30
        /\ DOMAIN metricsMap = {KeyA10, KeyB5}
        /\ RatEq(metricsMap[KeyA10].selfCpuPercent, Rat(2000, 30))
        /\ RatLeq(Rat(666, 10), metricsMap[KeyA10].selfCpuPercent)
        /\ RatLeq(metricsMap[KeyA10].selfCpuPercent, Rat(667, 10))
        /\ metricsMap[KeyA10].cpuSamples = 30
        /\ RatEq(metricsMap[KeyA10].cpuPercent, Rat(100, 1))
        /\ RatEq(metricsMap[KeyB5].selfCpuPercent, Rat(1000, 30))
        /\ RatLeq(Rat(333, 10), metricsMap[KeyB5].selfCpuPercent)
        /\ RatLeq(metricsMap[KeyB5].selfCpuPercent, Rat(334, 10))
        /\ metricsMap[KeyB5].cpuSamples = 10
        /\ RatEq(metricsMap[KeyB5].cpuPercent, Rat(1000, 30))

C7_Witness == Done /\ IsExample /\ KeyA10 \in DOMAIN metricsMap /\ KeyB5 \in DOMAIN metricsMap

SampleOrders(n) == { f \in [1..n -> 1..n] : \A i, j \in 1..n : f[i] = f[j] => i = j }

Permuted(prof, f) ==
    [prof EXCEPT !.samples = [i \in 1..Len(prof.samples) |-> prof.samples[f[i]]]]

Part(prof, from, to) == [prof EXCEPT !.samples = SubSeq(prof.samples, from, to)]

\* the accumulated fields a returned ProfileMetrics keeps
Accumulated(mm) ==
    [k \in DOMAIN mm |->
        [cpuSamples |-> mm[k].cpuSamples, memoryBytes |-> mm[k].memoryBytes,
         allocations |-> mm[k].allocations]]

ZeroAccumulated == [cpuSamples |-> 0, memoryBytes |-> 0, allocations |-> 0]

\* field-wise sum of two accumulations
MergeAccumulated(a, b) ==
    [k \in DOMAIN a \cup DOMAIN b |->
        LET x == IF k \in DOMAIN a THEN a[k] ELSE ZeroAccumulated
            y == IF k \in DOMAIN b THEN b[k] ELSE ZeroAccumulated
        IN  [cpuSamples |-> x.cpuSamples + y.cpuSamples,
             memoryBytes |-> x.memoryBytes + y.memoryBytes,
             allocations |-> x.allocations + y.allocations]]

\* C8: the ProfileMetrics of a pass is the same for every order of the samples,
\* and aggregating two parts of the samples separately and adding the
\* accumulated fields field-wise gives the accumulated values of the one pass.
C8_OrderIndependent ==
    Done =>
        /\ \A f \in SampleOrders(Len(profile.samples)) :
              mapSamplesToSource(Permuted(profile, f)) = metricsMap
        /\ \A k \in 0..Len(profile.samples) :
              MergeAccumulated(
                  Accumulated(mapSamplesToSource(Part(profile, 1, k))),
                  Accumulated(mapSamplesToSource(Part(profile, k + 1, Len(profile.samples)))))
              = Accumulated(metricsMap)

\* two samples that meet on a line with different values, in a state after the pass
C8_Witness ==
    /\ Done
    /\ Len(profile.samples) >= 2
    /\ profile.samples[1] # profile.samples[2]
    /\ \E k \in DOMAIN metricsMap :
          /\ k \in DOMAIN mapSamplesToSource(Part(profile, 1, 1))
          /\ k \in DOMAIN mapSamplesToSource(Part(profile, 2, 2))
          /\ mapSamplesToSource(Part(profile, 1, 1))[k].cpuSamples
               # mapSamplesToSource(Part(profile, 2, 2))[k].cpuSamples

----------------------------------------------------------------------------
(* Sample-type indices *)

\* the candidate names of each metric kind, in the order they are tried
CandidateNames ==
    [cpuIndex          |-> <<Str_cpu, Str_samples, Str_sample>>,
     allocSpaceIndex   |-> <<Str_alloc_space, Str_allocated, Str_bytes>>,
     allocObjectsIndex |-> <<Str_alloc_objects, Str_allocations, Str_count>>,
     inuseSpaceIndex   |-> <<Str_inuse_space, Str_inuse>>]

\* sample type i of the profile contains candidate name, whatever the case
Contains(i, name) == includes(toLowerCase(profile.sampleTypes[i]), toLowerCase(name))

\* the sample types that contain one of the kind's candidate names
TypesWithAnyName(kind) ==
    { i \in 1..Len(profile.sampleTypes) :
        \E n \in 1..Len(CandidateNames[kind]) : Contains(i, CandidateNames[kind][n]) }

\* the candidate names of the kind that some sample type contains
NamesInSomeType(kind) ==
    { n \in 1..Len(CandidateNames[kind]) :
        \E i \in 1..Len(profile.sampleTypes) : Contains(i, CandidateNames[kind][n]) }

Kinds == DOMAIN CandidateNames

IndicesFound == pc # "start"

\* C21 as stated: each index is that of the first sample type that contains one
\* of the kind's candidate names, and -1 exactly when no sample type does
C21_FirstTypeWithAnyNameWins ==
    IndicesFound =>
        \A kind \in Kinds :
            /\ (idx[kind] = -1) <=> (TypesWithAnyName(kind) = {})
            /\ TypesWithAnyName(kind) # {} => idx[kind] = Least(TypesWithAnyName(kind)) - 1

\* C21 amended: the candidate names are tried in their order; each index is that
\* of the first sample type that contains the first candidate name that any
\* sample type contains, and -1 exactly when no sample type contains any
C21_FirstNameThenFirstType ==
    IndicesFound =>
        \A kind \in Kinds :
            /\ (idx[kind] = -1) <=> (TypesWithAnyName(kind) = {})
            /\ NamesInSomeType(kind) # {} =>
                  LET name == CandidateNames[kind][Least(NamesInSomeType(kind))]
                  IN  idx[kind] = Least({ i \in 1..Len(profile.sampleTypes) : Contains(i, name) }) - 1

\* a profile whose second type carries an earlier candidate name than its first,
\* with an upper-case name matched
C21_Witness ==
    /\ IndicesFound
    /\ profile.sampleTypes = <<Str_samples, Str_CPU, Str_bytes>>
    /\ idx.cpuIndex = 1
    /\ idx.allocSpaceIndex = 2
    /\ idx.inuseSpaceIndex = -1

\* none of the four metric kinds was found in the sample-type list
NoKindFound == \A kind \in Kinds : idx[kind] = -1

ZeroFields(lm) ==
    /\ lm.cpuSamples = 0 /\ lm.memoryBytes = 0 /\ lm.allocations = 0
    /\ lm.cpuPercent.num = 0 /\ lm.memoryPercent.num = 0
    /\ lm.selfCpuPercent.num = 0 /\ lm.selfMemoryPercent.num = 0

\* C22: when none of the four metric kinds is found the pass runs to its end
\* (it is never stuck before the return) and every numeric field of every
\* LineMetrics is zero, during the pass and in the returned map
C22_NoKindGivesZeroedMetrics ==
    (IndicesFound /\ NoKindFound) =>
        /\ \A k \in DOMAIN metricsMap : ZeroFields(metricsMap[k])
        /\ totalCpu = 0 /\ totalMemory = 0
        /\ pc \in {"loop", "done"}
        /\ pc = "loop" => sampleIdx <= Len(profile.samples)

\* a finished pass over goroutine samples with non-zero values that has entries
C22_Witness ==
    /\ Done /\ NoKindFound
    /\ DOMAIN metricsMap # {}
    /\ \E i \in 1..Len(profile.samples) : profile.samples[i].values[1] # 0

----------------------------------------------------------------------------
(* Dangling ids *)

\* the sites of a sample in stack order: by location position, then by line
SiteBefore(a, b) == a[1] < b[1] \/ (a[1] = b[1] /\ a[2] < b[2])

\* the frame of the stack made from the site
FrameOf(stack, sample, site) ==
    stack[Cardinality({ other \in FrameSites(sample) : SiteBefore(other, site) }) + 1]

\* the stack holds one frame per (location, line) whose ids are both known, in
\* order, each with the position of its location in sample.locationIds
KeepsKnownFrames(sample) ==
    LET stack == getStackTrace(sample)
    IN  /\ Len(stack) = Cardinality(FrameSites(sample))
        /\ \A site \in FrameSites(sample) :
              /\ FrameOf(stack, sample, site).locationIndex = site[1] - 1
              /\ FrameOf(stack, sample, site).line = SiteLine(sample, site).line
              /\ FrameOf(stack, sample, site).filename = SiteFile(sample, site)

\* the location id at position 0 of the sample is not in the locations map
DanglingLeaf(sample) ==
    Len(sample.locationIds) > 0 /\ sample.locationIds[1] \notin DOMAIN locations

SelfOf(mm, key) ==
    IF key \in DOMAIN mm THEN <<mm[key].selfCpuPercent, mm[key].selfMemoryPercent>>
    ELSE <<Rat(0, 1), Rat(0, 1)>>

\* one iteration of the per-sample loop over a sample with a dangling leaf
\* leaves the pass in its loop and changes no self field
DanglingLeafStep ==
    (pc = "loop" /\ sampleIdx' = sampleIdx + 1 /\ DanglingLeaf(profile.samples[sampleIdx + 1]))
        => /\ pc' = "loop"
           /\ \A key \in DOMAIN metricsMap' : SelfOf(metricsMap', key) = SelfOf(metricsMap, key)

\* C23: a location id missing from the locations map, or a function id missing
\* from the functions map, drops only its own frames; every other frame is kept
\* with the position of its location as depth index; and a sample whose location
\* at position 0 is dangling adds to no self field and does not end the pass.
C23_DanglingIdsDropOnlyTheirFrames ==
    /\ [](\A i \in 1..Len(profile.samples) : KeepsKnownFrames(profile.samples[i]))
    /\ [][DanglingLeafStep]_vars

\* the sample [unknown location, A:10] was processed with a non-zero value:
\* a.go:10 has the value as cumulative and nothing as self
C23_Witness ==
    /\ pc = "loop" /\ sampleIdx = 1
    /\ profile.samples[1].locationIds = <<99, 1>>
    /\ KeyA10 \in DOMAIN metricsMap
    /\ metricsMap[KeyA10].cpuSamples = 2
    /\ metricsMap[KeyA10].selfCpuPercent.num = 0

----------------------------------------------------------------------------
(* Growth of the ProfileMetrics during a pass *)

\* the samples processed so far
Processed == IF pc = "start" THEN 0 ELSE sampleIdx

\* the entries are those of the frames processed so far that have a filename,
\* a line and a file they resolve to
EntriesAreLandedKeys == DOMAIN metricsMap = KeysOf(LandedSites(Processed, ResolutionTable))

\* a step of the pass removes no entry; a sample adds the entries its frames
\* land on and adds its values to the entries that exist, and no other step
\* adds an entry
EntriesGrow ==
    /\ DOMAIN metricsMap \subseteq DOMAIN metricsMap'
    /\ IF pc = "loop" /\ sampleIdx' = sampleIdx + 1
       THEN LET landed == LandedSites(sampleIdx + 1, ResolutionTable)
                added  == { x.key : x \in landed[sampleIdx + 1] }
                sample == profile.samples[sampleIdx + 1]
            IN  /\ DOMAIN metricsMap' = DOMAIN metricsMap \cup added
                /\ \A key \in DOMAIN metricsMap :
                      /\ metricsMap'[key].cpuSamples = metricsMap[key].cpuSamples
                            + cpuOf(idx, sample) * SitesOn(landed, sampleIdx + 1, key, FALSE)
                      /\ metricsMap'[key].memoryBytes = metricsMap[key].memoryBytes
                            + memoryOf(idx, sample) * SitesOn(landed, sampleIdx + 1, key, FALSE)
       ELSE DOMAIN metricsMap' = DOMAIN metricsMap

\* C24: during one pass the set of (resolved file, line) entries only grows: an
\* entry appears with the first processed frame that resolves to it, no entry
\* is removed or started afresh, and at every moment, the end included, an entry
\* exists exactly for the (file, line) pairs that a processed frame with a
\* non-empty filename and a non-zero line resolved to.
C24_EntriesOnlyGrow == []EntriesAreLandedKeys /\ [][EntriesGrow]_vars

\* a finished pass of three samples in which b.go:5 was created by the first
\* sample and credited again by the later ones, next to an entry for a.go:10
\* created by the third
C24_Witness ==
    /\ Done
    /\ Len(profile.samples) = 3
    /\ profile.samples[1].locationIds = <<99, 6, 4, 5, 8, 7, 2>>
    /\ profile.samples[2].locationIds = <<99, 6, 4, 5, 8, 7, 2>>
    /\ profile.samples[3].locationIds = <<3, 9>>
    /\ KeyB5 \in DOMAIN metricsMap /\ KeyA10 \in DOMAIN metricsMap
    /\ metricsMap[KeyB5].cpuSamples = 6

----------------------------------------------------------------------------
(* Configured mappings *)

\* the configured mappings with the workspace-root variable substituted in the
\* to prefix, and in the from prefix as well when bothSides is set
Substituted(bothSides) ==
    [i \in 1..Len(rawMappings) |->
        [from |-> IF bothSides THEN substituteVariables(rawMappings[i].from)
                  ELSE rawMappings[i].from,
         to   |-> substituteVariables(rawMappings[i].to)]]

\* the mappings whose from prefix starts the path and whose mapped file exists
HitMappings(maps, p) ==
    { i \in 1..Len(maps) :
        /\ startsWith(p, maps[i].from)
        /\ existsSync(join(maps[i].to, substring(p, maps[i].from))) }

\* the mappings whose from prefix starts the path and whose mapped file is missing
MissedMappings(maps, p) ==
    { i \in 1..Len(maps) :
        /\ startsWith(p, maps[i].from)
        /\ ~existsSync(join(maps[i].to, substring(p, maps[i].from))) }

\* the last call resolved as the mappings `maps` say: to the mapped file of the
\* first mapping whose mapped file exists, and, when there is none, by the
\* later strategies (the path itself when it exists, else the first workspace
\* folder that has it)
ResolvedByMappings(maps) ==
    LET p == lastPath
        hits == HitMappings(maps, p)
    IN  /\ hits # {} =>
              lastResult = join(maps[Least(hits)].to, substring(p, maps[Least(hits)].from))
        /\ hits = {} =>
              /\ (isAbsolute(p) /\ existsSync(p)) => lastResult = p
              /\ (~(isAbsolute(p) /\ existsSync(p)) /\ MatchingFolders(p) # {}) =>
                    lastResult = join(folders[Least(MatchingFolders(p))], p)

\* C25 as stated: the variable is substituted in both the from and the to prefix
C25_MappingsBothPrefixesSubstituted == Resolved => ResolvedByMappings(Substituted(TRUE))

\* C25 amended: the variable is substituted in the to prefix only, the from
\* prefix is compared as configured; a path that starts with a from prefix
\* resolves to the remainder joined onto the to prefix when that file exists,
\* and when it does not exist the next mapping and then the later strategies
\* are tried
C25_MappingsToPrefixSubstituted == Resolved => ResolvedByMappings(Substituted(FALSE))

\* /app/a.go with the mappings /app -> /gone and /app -> /ext: the first mapped
\* file is missing and the second mapping resolves the path
C25_Witness ==
    /\ Resolved
    /\ lastPath = P(TRUE, <<"app", "a.go">>)
    /\ Len(rawMappings) = 2
    /\ MissedMappings(Substituted(FALSE), lastPath) = {1}
    /\ lastResult = P(TRUE, <<"ext", "a.go">>)

----------------------------------------------------------------------------
(* Range of the percentages *)

WithinPercentRange(x) == RatLeq(Rat(0, 1), x) /\ RatLeq(x, Rat(100, 1))

\* C26: with non-negative sample values, every returned LineMetrics has
\* cpuPercent and memoryPercent between 0 and 100 inclusive, also when the same
\* (file, line) occurs more than once in the stack of one sample.
C26_PercentWithinZeroAndHundred ==
    (Done /\ NonNegativeValues) =>
        \A key \in DOMAIN metricsMap :
            /\ WithinPercentRange(metricsMap[key].cpuPercent)
            /\ WithinPercentRange(metricsMap[key].memoryPercent)

----------------------------------------------------------------------------
(* A ProfileStore on its own: any calls of its methods, no listener *)

\* Paths of documents: a key; a file with the basename of two keys; a file at
\* the root that two keys end with; a key in other case and with backslashes;
\* a file that no key resembles
DocumentPaths ==
    { <<"/", "w", "/", "a">>, <<"/", "x", "/", "a">>, <<"/", "a">>,
      <<"\\", "W", "\\", "A">>, <<"/", "w", "/", "c">> }

\* ProfileMetrics in the order the pass inserted the files: no file, one file,
\* two files with the same basename in either order
StoreMetrics ==
    { [k \in 1..Len(ks) |-> [path |-> ks[k], fileMetrics |-> FileMetricsOf(ks[k])]] :
        ks \in { <<>>, << <<"/", "w", "/", "b">> >>, << <<"/", "w", "/", "a">> >>,
                 << <<"/", "w", "/", "a">>, <<"/", "v", "/", "a">> >>,
                 << <<"/", "v", "/", "a">>, <<"/", "w", "/", "a">> >> } }

ProfileNames == {"cpu", "memory"}

StoreEntries == { [name |-> n, metrics |-> m, origin |-> "caller"] : n \in ProfileNames, m \in StoreMetrics }

\* the paths the named entry of the store has metrics for
keysOf(st, profileName) ==
    UNION { { st.profiles[j].metrics[k].path : k \in 1..Len(st.profiles[j].metrics) } :
              j \in { j \in 1..Len(st.profiles) : st.profiles[j].name = profileName } }

\* getMetricsForProfile was not called yet
NoLookup == [profileName |-> "", filePath |-> <<>>, keys |-> {}, result |-> NoFileMetrics]

StoreInit ==
    /\ store = EmptyStore
    /\ lookup = NoLookup
    /\ task = <<>>
    /\ cmd = <<>>
    /\ messages = {}
    /\ hintIn = "none" /\ hintOut = "none" /\ fnIn = "none" /\ fnOut = "none"
    /\ enabled = TRUE /\ settings = "none" /\ decorationTypes = {} /\ editors = <<>>
    /\ files = {} /\ folders = <<>> /\ rawMappings = <<>>
    /\ ResolverFresh
    /\ PassIdle
    /\ DecompIdle

\* profileStore.loadProfile(metrics, name)
StoreLoadProfile(metrics, name) ==
    /\ store' = loadProfile(metrics, name)
    /\ UNCHANGED <<task, cmd, messages>>
    /\ UNCHANGED <<resolverVars, passVars, decompVars, viewVars>>

\* profileStore.loadProfiles(entries, sessionName)
StoreLoadProfiles(entries, sessionName) ==
    /\ store' = loadProfiles(entries, sessionName)
    /\ UNCHANGED <<task, cmd, messages>>
    /\ UNCHANGED <<resolverVars, passVars, decompVars, viewVars>>

\* profileStore.clearProfile()
StoreClearProfile ==
    /\ store' = clearProfile
    /\ UNCHANGED <<task, cmd, messages>>
    /\ UNCHANGED <<resolverVars, passVars, decompVars, viewVars>>

\* profileStore.getMetricsForProfile(profileName, filePath); the ProfileMetrics
\* of the named entry at the time of the call is kept with the answer
StoreGetMetricsForProfile(profileName, filePath) ==
    /\ lookup' = [profileName |-> profileName, filePath |-> filePath,
                  keys   |-> keysOf(store, profileName),
                  result |-> getMetricsForProfile(store, profileName, filePath)]
    /\ UNCHANGED <<hintIn, hintOut, fnIn, fnOut, enabled, settings, decorationTypes, editors>>
    /\ UNCHANGED <<resolverVars, passVars, decompVars, cmdVars>>

StoreNext ==
    \/ \E m \in StoreMetrics : StoreLoadProfile(m, SessionName)
    \/ \E es \in SeqsUpTo(StoreEntries, 2) : StoreLoadProfiles(es, SessionName)
    \/ StoreClearProfile
    \/ \E n \in ProfileNames, p \in DocumentPaths : StoreGetMetricsForProfile(n, p)

SpecStore == StoreInit /\ [][StoreNext]_vars

SameFile(path1, path2) == normalizePath(path1) = normalizePath(path2)

Asked == lookup # NoLookup

\* C28: getMetricsForProfile returns the metrics stored under the exact key
\* filePath when that key exists, and otherwise it returns no metrics that were
\* recorded for a different file (a file that shares the basename or a suffix).
C28_NoMetricsOfAnotherFile ==
    Asked =>
        /\ lookup.filePath \in lookup.keys => lookup.result = FileMetricsOf(lookup.filePath)
        /\ (lookup.filePath \notin lookup.keys /\ lookup.result.found) =>
              SameFile(lookup.result.filePath, lookup.filePath)


----------------------------------------------------------------------------
(* DecorationManager (decorations/decorationManager.ts) with the listeners of *)
(* extension.ts: every change of the store, of the enabled flag or of the     *)
(* configuration ends with updateDecorations().  An editor is the set of the  *)
(* decorations it shows; a decoration belongs to the decoration type of its   *)
(* colour.                                                                    *)

\* ProfileStore.getProfileEntry
getProfileEntry(st, profileName) == mapGet(st.profiles, profileName)

\* DecorationManager.getConfig: displayProfiles unset or empty means all loaded
getConfig(st, cfg) ==
    [cfg EXCEPT !.displayProfiles =
        IF ~cfg.displayProfiles.isSet \/ Len(cfg.displayProfiles.names) = 0
        THEN DisplayProfiles(getLoadedProfileNames(st))
        ELSE cfg.displayProfiles]

\* the inner Map of one line: the displayed profiles that are loaded and have
\* metrics for the line of the file, in the order of displayProfiles
RECURSIVE profileMetricsAt(_, _, _, _)
profileMetricsAt(displayProfiles, st, filePath, lineNumber) ==
    IF Len(displayProfiles) = 0 THEN <<>>
    ELSE LET profileName == Head(displayProfiles)
             rest == profileMetricsAt(Tail(displayProfiles), st, filePath, lineNumber)
         IN  IF ~mapHas(st.profiles, profileName) THEN rest
             ELSE LET fileMetrics == getMetricsForProfile(st, profileName, filePath)
                  IN  IF ~fileMetrics.found THEN rest
                      ELSE IF lineNumber \notin DOMAIN fileMetrics.lines THEN rest
                      ELSE << [name    |-> profileName,
                               unit    |-> getProfileEntry(st, profileName).unit,
                               metrics |-> fileMetrics.lines[lineNumber]] >> \o rest

\* the keys of lineMetricsMap: the lines some displayed profile has metrics for
lineNumbersOf(displayProfiles, st, filePath) ==
    UNION { LET fileMetrics == getMetricsForProfile(st, displayProfiles[k], filePath)
            IN  IF mapHas(st.profiles, displayProfiles[k]) /\ fileMetrics.found
                THEN DOMAIN fileMetrics.lines ELSE {}
            : k \in 1..Len(displayProfiles) }

\* decorationsByColor, as the set of the decorations with their colours
decorationsByColor(st, filePath, config) ==
    LET displayProfiles == config.displayProfiles.names
        hintAt(lineNumber) ==
            renderHint([isMap |-> TRUE, metrics |-> <<>>,
                        map |-> profileMetricsAt(displayProfiles, st, filePath, lineNumber)],
                       config)
    IN  { [type |-> hintAt(l).color, line |-> l - 1, hint |-> hintAt(l)] :
            l \in { l \in lineNumbersOf(displayProfiles, st, filePath) : ~hintAt(l).isNull } }

\* updateEditorDecorations: nothing is done when no line has metrics; otherwise
\* setDecorations replaces the decorations of each colour that was rendered
updateEditorDecorations(shown, st, filePath, config) ==
    IF lineNumbersOf(config.displayProfiles.names, st, filePath) = {} THEN shown
    ELSE LET rendered == decorationsByColor(st, filePath, config)
             colors   == { d.type : d \in rendered }
         IN  { d \in shown : d.type \notin colors } \cup rendered

\* clearAllDecorations: setDecorations(type, []) for each decoration type on
\* each visible editor
clearAllDecorations(types, eds) ==
    [f \in DOMAIN eds |-> { d \in eds[f] : d.type \notin types }]

\* updateDecorations: the editors and the decoration types after the call
updateDecorations(st, en, cfg, types, eds) ==
    IF ~en \/ ~hasProfile(st)
    THEN [editors |-> clearAllDecorations(types, eds), decorationTypes |-> types]
    ELSE LET config == getConfig(st, cfg)
         IN  [editors |-> [f \in DOMAIN eds |-> updateEditorDecorations(eds[f], st, f, config)],
              decorationTypes |->
                  types \cup UNION { { d.type : d \in decorationsByColor(st, f, config) } :
                                       f \in { f \in DOMAIN eds :
                                                 lineNumbersOf(config.displayProfiles.names, st, f) # {} } }]

\* The documents of the visible editors
VisibleEditors == { <<"/", "w", "/", "a">>, <<"/", "w", "/", "c">> }

UiLineMetrics ==
    { [selfCpuPercent |-> 10, selfMemoryPercent |-> 0, memoryBytes |-> 0, cpuSamples |-> 7],
      [selfCpuPercent |-> 120, selfMemoryPercent |-> 0, memoryBytes |-> 0, cpuSamples |-> 7],
      [selfCpuPercent |-> 0, selfMemoryPercent |-> 60, memoryBytes |-> 2048, cpuSamples |-> 0] }

\* the ProfileMetrics with one file that has metrics on line 10
OneLine(f, m) ==
    << [path |-> f, fileMetrics |-> [found |-> TRUE, filePath |-> f, lines |-> (10 :> m)]] >>

\* The lists of entries a fetch stores: a cpu profile of one of the files, or
\* a cpu and a memory profile of the first file
UiEntryLists ==
    { << [name |-> "cpu", unit |-> "nanoseconds", metrics |-> OneLine(f, m), origin |-> "fetch"] >> :
        f \in VisibleEditors, m \in { m \in UiLineMetrics : m.selfCpuPercent > 0 } }
    \cup { << [name |-> "cpu", unit |-> "nanoseconds",
               metrics |-> OneLine(<<"/", "w", "/", "a">>, m), origin |-> "fetch"],
              [name |-> "memory", unit |-> "bytes",
               metrics |-> OneLine(<<"/", "w", "/", "a">>, mm), origin |-> "fetch"] >> :
             m \in { m \in UiLineMetrics : m.selfCpuPercent = 10 },
             mm \in { m \in UiLineMetrics : m.selfMemoryPercent > 0 } }

\* The pyroscope configuration: the defaults, a higher threshold, one colour
DefaultConfig ==
    [displayMode |-> "both", colorScheme |-> "heatmap", threshold |-> 10,
     displayProfiles |-> NoProfiles]

UiConfigs ==
    { DefaultConfig,
      [DefaultConfig EXCEPT !.threshold = 50],
      [DefaultConfig EXCEPT !.colorScheme = "minimal"] }

UiInit ==
    /\ store = EmptyStore
    /\ enabled = TRUE
    /\ settings = DefaultConfig
    /\ decorationTypes = {}
    /\ editors = [f \in VisibleEditors |-> {}]
    /\ lookup = "none"
    /\ task = <<>>
    /\ cmd = <<>>
    /\ messages = {}
    /\ hintIn = "none" /\ hintOut = "none" /\ fnIn = "none" /\ fnOut = "none"
    /\ files = {} /\ folders = <<>> /\ rawMappings = <<>>
    /\ ResolverFresh
    /\ PassIdle
    /\ DecompIdle

\* the listeners' call of decorationManager.updateDecorations() on the state
\* the handler leaves
Redecorate(st, en, cfg) ==
    LET after == updateDecorations(st, en, cfg, decorationTypes, editors)
    IN  /\ editors' = after.editors
        /\ decorationTypes' = after.decorationTypes

\* A fetch stores its entries; onProfileChanged fires
UiLoadProfiles(entries) ==
    /\ store' = loadProfiles(entries, SessionName)
    /\ Redecorate(store', enabled, settings)
    /\ UNCHANGED <<lookup, enabled, settings>>
    /\ UNCHANGED <<task, cmd, messages, hintIn, hintOut, fnIn, fnOut>>
    /\ UNCHANGED <<resolverVars, passVars, decompVars>>

\* The clear command on a loaded profile; onProfileChanged fires
UiClearProfile ==
    /\ hasProfile(store)
    /\ store' = clearProfile
    /\ Redecorate(store', enabled, settings)
    /\ UNCHANGED <<lookup, enabled, settings>>
    /\ UNCHANGED <<task, cmd, messages, hintIn, hintOut, fnIn, fnOut>>
    /\ UNCHANGED <<resolverVars, passVars, decompVars>>

\* DecorationManager.toggleHints
toggleHints ==
    /\ enabled' = ~enabled
    /\ Redecorate(store, enabled', settings)
    /\ UNCHANGED <<lookup, settings, store>>
    /\ UNCHANGED <<task, cmd, messages, hintIn, hintOut, fnIn, fnOut>>
    /\ UNCHANGED <<resolverVars, passVars, decompVars>>

\* onDidChangeConfiguration of the pyroscope section
UiConfigurationChanged(cfg) ==
    /\ cfg # settings
    /\ settings' = cfg
    /\ Redecorate(store, enabled, settings')
    /\ UNCHANGED <<lookup, enabled, store>>
    /\ UNCHANGED <<task, cmd, messages, hintIn, hintOut, fnIn, fnOut>>
    /\ UNCHANGED <<resolverVars, passVars, decompVars>>

UiNext ==
    \/ \E entries \in UiEntryLists : UiLoadProfiles(entries)
    \/ UiClearProfile
    \/ toggleHints
    \/ \E cfg \in UiConfigs : UiConfigurationChanged(cfg)

SpecUi == UiInit /\ [][UiNext]_vars

\* C29: once updateDecorations has run, each visible editor shows exactly the
\* decorations rendered from the currently loaded profiles for its file under
\* the current configuration, and none when hints are disabled or no profile
\* is loaded.
C29_DecorationsAreTheCurrentRender ==
    \A f \in DOMAIN editors :
        editors[f] = IF enabled /\ hasProfile(store)
                     THEN decorationsByColor(store, f, getConfig(store, settings))
                     ELSE {}


----------------------------------------------------------------------------
(* The store under the load and the fetch command running together *)

\* every entry of the store was made by a pass of the same command
EntriesOfOneCommand ==
    \A k, j \in 1..Len(store.profiles) :
        commandOf(store.profiles[k].origin) = commandOf(store.profiles[j].origin)

\* the store holds entries of the fetch command under the name of its session
InfoNamesTheSession ==
    Len(store.profiles) > 0 => getProfileInfo(store) = SessionName

\* a step that changes the store is the end of the fetch command, with every
\* one of its tasks returned
StoredAtTheEndOnly ==
    store' # store =>
        /\ cmd.fetch = "running" /\ cmd'.fetch = "ended"
        /\ \A k \in 1..Len(FetchTasks) : task[FetchTasks[k]].pc = "returned"

\* the step that ends the fetch command stores the successful entries in the
\* order of the selection, or leaves the store alone when there is none
FetchStoresItsEntries ==
    (cmd.fetch = "running" /\ cmd'.fetch = "ended") =>
        IF Len(profileEntries) = 0 THEN store' = store
        ELSE /\ store'.profiles = profileEntries
             /\ getProfileInfo(store') = SessionName

\* C30: in every interleaving of the load and the fetch command the store is
\* updated at most once per command, after all passes of the command have
\* finished; its entries always come from one command and the profile info
\* names that command's session; a fetch stores its successful entries in the
\* order the types were selected, and a fetch whose passes all failed leaves
\* the store unchanged.
C30_OneStorePerCommandInSelectionOrder ==
    /\ [](EntriesOfOneCommand /\ InfoNamesTheSession)
    /\ [][StoredAtTheEndOnly /\ FetchStoresItsEntries]_vars

====
